---- MODULE Spec2Model ----
(***************************************************************************)
(* Model of the Neuron token ledger (src/nrn.sol) and of the Stimulus      *)
(* enrollment/reward contract (src/stimulus.sol).                          *)
(*                                                                         *)
(* Every public method is one action.  A method body is an operator that   *)
(* takes the storage of all ledger instances (and, for Stimulus, the       *)
(* participants map), the address of the instance, msg.sender and the      *)
(* arguments, and returns [ok, L, logs, line] (Stimulus: with P as well):   *)
(* the storage after the call and the events it emitted.  A failed require *)
(* reverts: the call returns the storage it was given, no events, and the  *)
(* source line of the require that failed (0 when the call succeeded).     *)
(* Unsigned arithmetic wraps modulo MaxUint + 1 as uint256 does modulo     *)
(* 2^256.                                                                  *)
(***************************************************************************)
EXTENDS Integers, Sequences, FiniteSets, TLC

VARIABLES
    ledgers,                \* the storage of every deployed Neuron instance
    nrn,                    \* Stimulus: address of the token it pays in
    principalInvestigator,  \* Stimulus: the PI
    rewards,                \* Stimulus: rewards[0..4]
    participants,           \* Stimulus: status code of every address
    receipt,                \* the last transaction: method, contract, sender, status
    log,                    \* the events delivered to the observer, oldest first
    observer                \* the contracts whose events the observer receives

vars == <<ledgers, nrn, principalInvestigator, rewards, participants, receipt, log,
          observer>>

stimVars == <<nrn, principalInvestigator, rewards, participants>>

---------------------------------------------------------------------------
(* Bounds and address space *)

\* largest value of the unsigned integer type (2^256 - 1 in the EVM)
MaxUint == 2

Users == {"D", "A", "B"}

\* addresses of the deployed Neuron instances: the old one and the new one
Ledgers == {"O", "N"}

\* address of the deployed Stimulus instance
StimulusAddr == "S"

Addr == Users \cup Ledgers \cup {StimulusAddr}

Uint == 0..MaxUint

Names == {"Neuron", "Stem"}

Symbols == {"NRN", "STM"}

\* uint256 addition and subtraction (wrapping)
Add(a, b) == (a + b) % (MaxUint + 1)

Sub(a, b) == (a - b + (MaxUint + 1)) % (MaxUint + 1)

RECURSIVE SumOver(_, _)
SumOver(f, S) ==
    IF S = {} THEN 0
    ELSE LET x == CHOOSE y \in S : TRUE IN f[x] + SumOver(f, S \ {x})

---------------------------------------------------------------------------
(* Events *)

TransferEv(at, from, to, amount) ==
    [kind |-> "Transfer", at |-> at, from |-> from, to |-> to, amount |-> amount]

ApprovalEv(at, owner, spender, amount) ==
    [kind |-> "Approval", at |-> at, owner |-> owner, spender |-> spender, amount |-> amount]

---------------------------------------------------------------------------
(* Neuron: the ledger contract *)

\* constructor without line 13: the initial supply is credited to nobody
ConstructorCreditsNobody(sender, n, s, initialSupply) ==
    [name |-> n,
     symbol |-> s,
     neuronMaster |-> sender,
     totalSupply |-> initialSupply,
     ledger |-> [a \in Addr |-> 0],
     allowances |-> [a \in Addr |-> [b \in Addr |-> 0]],
     reclamationWhitelist |-> [a \in Addr |-> FALSE]]

\* state of a freshly constructed Neuron
Constructor(sender, n, s, initialSupply) ==
    [name |-> n,
     symbol |-> s,
     neuronMaster |-> sender,
     totalSupply |-> initialSupply,
     ledger |-> [a \in Addr |-> IF a = sender THEN initialSupply ELSE 0],
     allowances |-> [a \in Addr |-> [b \in Addr |-> 0]],
     reclamationWhitelist |-> [a \in Addr |-> FALSE]]

\* a reverted call: the storage it started from, no events; line is the
\* line of src/nrn.sol whose require failed
Revert(L, line) == [ok |-> FALSE, L |-> L, logs |-> <<>>, line |-> line]

Return(L, logs) == [ok |-> TRUE, L |-> L, logs |-> logs, line |-> 0]

\* hasMastery that lets every address pass
hasMasteryAnyone(c, entity) == TRUE

hasMastery(c, entity) == entity = c.neuronMaster

\* changeMastery that hands the old master's tokens to the new master
changeMasterySweeps(L, l, sender, newNeuronMaster) ==
    LET c == L[l]
        ledger1 == [c.ledger EXCEPT ![sender] = 0]
        ledger2 == [ledger1 EXCEPT ![newNeuronMaster] = Add(@, c.ledger[sender])]
    IN  IF ~hasMastery(c, sender) THEN Revert(L, 30)
        ELSE Return([L EXCEPT ![l].neuronMaster = newNeuronMaster,
                              ![l].ledger = ledger2], <<>>)

\* changeMastery without the require of line 30
changeMasteryNoGuard(L, l, sender, newNeuronMaster) ==
    Return([L EXCEPT ![l].neuronMaster = newNeuronMaster], <<>>)

changeMastery(L, l, sender, newNeuronMaster) ==
    IF ~hasMastery(L[l], sender) THEN Revert(L, 30)
    ELSE Return([L EXCEPT ![l].neuronMaster = newNeuronMaster], <<>>)

changeName(L, l, sender, newName) ==
    IF ~hasMastery(L[l], sender) THEN Revert(L, 43)
    ELSE Return([L EXCEPT ![l].name = newName], <<>>)

changeSymbol(L, l, sender, newSymbol) ==
    IF ~hasMastery(L[l], sender) THEN Revert(L, 49)
    ELSE Return([L EXCEPT ![l].symbol = newSymbol], <<>>)

balanceOf(c, entity) == c.ledger[entity]

\* increaseSupply without line 73: the new tokens are credited to nobody
increaseSupplyNoCredit(L, l, sender, amount) ==
    LET c == L[l]
        newSupply == Add(c.totalSupply, amount)
    IN  IF ~(sender = l \/ hasMastery(c, sender)) THEN Revert(L, 69)
        ELSE IF ~(newSupply > c.totalSupply) THEN Revert(L, 71)
        ELSE Return([L EXCEPT ![l].totalSupply = newSupply], <<>>)

\* increaseSupply without the require of line 71
increaseSupplyNoOverflowCheck(L, l, sender, amount) ==
    LET c == L[l]
        newSupply == Add(c.totalSupply, amount)
    IN  IF ~(sender = l \/ hasMastery(c, sender)) THEN Revert(L, 69)
        ELSE Return([L EXCEPT ![l].totalSupply = newSupply,
                              ![l].ledger[sender] = Add(@, amount)], <<>>)

\* increaseSupply without line 72: the supply stays as it was
increaseSupplyNoTotal(L, l, sender, amount) ==
    LET c == L[l]
        newSupply == Add(c.totalSupply, amount)
    IN  IF ~(sender = l \/ hasMastery(c, sender)) THEN Revert(L, 69)
        ELSE IF ~(newSupply > c.totalSupply) THEN Revert(L, 71)
        ELSE Return([L EXCEPT ![l].ledger[sender] = Add(@, amount)], <<>>)

increaseSupply(L, l, sender, amount) ==
    LET c == L[l]
        newSupply == Add(c.totalSupply, amount)
    IN  IF ~(sender = l \/ hasMastery(c, sender)) THEN Revert(L, 69)
        ELSE IF ~(newSupply > c.totalSupply) THEN Revert(L, 71)
        ELSE Return([L EXCEPT ![l].totalSupply = newSupply,
                              ![l].ledger[sender] = Add(@, amount)], <<>>)

\* decreaseSupply without the require of line 78
decreaseSupplyNoBalanceCheck(L, l, sender, amount) ==
    LET c == L[l]
        newSupply == Sub(c.totalSupply, amount)
    IN  IF ~(sender = l \/ hasMastery(c, sender)) THEN Revert(L, 77)
        ELSE IF ~(newSupply >= 0) THEN Revert(L, 80)
        ELSE IF ~(newSupply < c.totalSupply) THEN Revert(L, 81)
        ELSE Return([L EXCEPT ![l].ledger[sender] = Sub(@, amount),
                              ![l].totalSupply = newSupply], <<>>)

decreaseSupply(L, l, sender, amount) ==
    LET c == L[l]
        newSupply == Sub(c.totalSupply, amount)
    IN  IF ~(sender = l \/ hasMastery(c, sender)) THEN Revert(L, 77)
        ELSE IF ~(c.ledger[sender] >= amount) THEN Revert(L, 78)
        ELSE IF ~(newSupply >= 0) THEN Revert(L, 80)
        ELSE IF ~(newSupply < c.totalSupply) THEN Revert(L, 81)
        ELSE Return([L EXCEPT ![l].ledger[sender] = Sub(@, amount),
                              ![l].totalSupply = newSupply], <<>>)

\* approve without the guard of line 93
approveNoGuard(L, l, sender, entity, allowance) ==
    IF ~(allowance >= 0) THEN Revert(L, 92)
    ELSE Return([L EXCEPT ![l].allowances[sender][entity] = allowance],
                <<ApprovalEv(l, sender, entity, allowance)>>)

approve(L, l, sender, entity, allowance) ==
    LET c == L[l]
    IN  IF ~(allowance >= 0) THEN Revert(L, 92)
        ELSE IF ~(allowance = 0 \/ c.allowances[sender][entity] = 0) THEN Revert(L, 93)
        ELSE Return([L EXCEPT ![l].allowances[sender][entity] = allowance],
                    <<ApprovalEv(l, sender, entity, allowance)>>)

allowance(c, owner, proxy) == c.allowances[owner][proxy]

\* _changeHands without the balance check of line 109
_changeHandsNoBalanceCheck(L, l, sender, fromAddress, toAddress, amount) ==
    LET c == L[l]
        ledger1 == [c.ledger EXCEPT ![toAddress] = Add(@, amount)]
        ledger2 == [ledger1 EXCEPT ![fromAddress] = Sub(@, amount)]
        allowances1 == IF sender # fromAddress
                       THEN [c.allowances EXCEPT ![fromAddress][sender] = Sub(@, amount)]
                       ELSE c.allowances
    IN  IF ~(sender = fromAddress \/ c.allowances[fromAddress][sender] >= amount)
        THEN Revert(L, 110)
        ELSE Return([L EXCEPT ![l].ledger = ledger2, ![l].allowances = allowances1],
                    <<TransferEv(l, fromAddress, toAddress, amount)>>)

\* _changeHands without the authorization check of line 110
_changeHandsNoAllowanceCheck(L, l, sender, fromAddress, toAddress, amount) ==
    LET c == L[l]
        ledger1 == [c.ledger EXCEPT ![toAddress] = Add(@, amount)]
        ledger2 == [ledger1 EXCEPT ![fromAddress] = Sub(@, amount)]
        allowances1 == IF sender # fromAddress
                       THEN [c.allowances EXCEPT ![fromAddress][sender] = Sub(@, amount)]
                       ELSE c.allowances
    IN  IF ~(amount <= c.ledger[fromAddress]) THEN Revert(L, 109)
        ELSE Return([L EXCEPT ![l].ledger = ledger2, ![l].allowances = allowances1],
                    <<TransferEv(l, fromAddress, toAddress, amount)>>)

\* _changeHands without lines 113-115: the allowance is never consumed
\* _changeHands that refuses to move nothing
_changeHandsRejectsZero(L, l, sender, fromAddress, toAddress, amount) ==
    LET c == L[l]
        ledger1 == [c.ledger EXCEPT ![toAddress] = Add(@, amount)]
        ledger2 == [ledger1 EXCEPT ![fromAddress] = Sub(@, amount)]
        allowances1 == IF sender # fromAddress
                       THEN [c.allowances EXCEPT ![fromAddress][sender] = Sub(@, amount)]
                       ELSE c.allowances
    IN  IF ~(amount > 0 /\ amount <= c.ledger[fromAddress]) THEN Revert(L, 109)
        ELSE IF ~(sender = fromAddress \/ c.allowances[fromAddress][sender] >= amount)
             THEN Revert(L, 110)
        ELSE Return([L EXCEPT ![l].ledger = ledger2, ![l].allowances = allowances1],
                    <<TransferEv(l, fromAddress, toAddress, amount)>>)

\* _changeHands that reads both balances before it writes either: in a
\* transfer of an address to itself the debit overwrites the credit
_changeHandsStaleBalances(L, l, sender, fromAddress, toAddress, amount) ==
    LET c == L[l]
        ledger1 == [c.ledger EXCEPT ![toAddress] = Add(c.ledger[toAddress], amount)]
        ledger2 == [ledger1 EXCEPT ![fromAddress] = Sub(c.ledger[fromAddress], amount)]
        allowances1 == IF sender # fromAddress
                       THEN [c.allowances EXCEPT ![fromAddress][sender] = Sub(@, amount)]
                       ELSE c.allowances
    IN  IF ~(amount <= c.ledger[fromAddress]) THEN Revert(L, 109)
        ELSE IF ~(sender = fromAddress \/ c.allowances[fromAddress][sender] >= amount)
             THEN Revert(L, 110)
        ELSE Return([L EXCEPT ![l].ledger = ledger2, ![l].allowances = allowances1],
                    <<TransferEv(l, fromAddress, toAddress, amount)>>)

\* _changeHands that asks for some allowance, not for enough, and uses it up
_changeHandsAnyAllowance(L, l, sender, fromAddress, toAddress, amount) ==
    LET c == L[l]
        ledger1 == [c.ledger EXCEPT ![toAddress] = Add(@, amount)]
        ledger2 == [ledger1 EXCEPT ![fromAddress] = Sub(@, amount)]
        allowances1 == IF sender # fromAddress
                       THEN [c.allowances EXCEPT ![fromAddress][sender] = 0]
                       ELSE c.allowances
    IN  IF ~(amount <= c.ledger[fromAddress]) THEN Revert(L, 109)
        ELSE IF ~(sender = fromAddress \/ c.allowances[fromAddress][sender] >= 1)
             THEN Revert(L, 110)
        ELSE Return([L EXCEPT ![l].ledger = ledger2, ![l].allowances = allowances1],
                    <<TransferEv(l, fromAddress, toAddress, amount)>>)

\* _changeHands without the debit of lines 113-115
_changeHandsNoAllowanceDebit(L, l, sender, fromAddress, toAddress, amount) ==
    LET c == L[l]
        ledger1 == [c.ledger EXCEPT ![toAddress] = Add(@, amount)]
        ledger2 == [ledger1 EXCEPT ![fromAddress] = Sub(@, amount)]
    IN  IF ~(amount <= c.ledger[fromAddress]) THEN Revert(L, 109)
        ELSE IF ~(sender = fromAddress \/ c.allowances[fromAddress][sender] >= amount)
             THEN Revert(L, 110)
        ELSE Return([L EXCEPT ![l].ledger = ledger2],
                    <<TransferEv(l, fromAddress, toAddress, amount)>>)

_changeHands(L, l, sender, fromAddress, toAddress, amount) ==
    LET c == L[l]
        ledger1 == [c.ledger EXCEPT ![toAddress] = Add(@, amount)]
        ledger2 == [ledger1 EXCEPT ![fromAddress] = Sub(@, amount)]
        allowances1 == IF sender # fromAddress
                       THEN [c.allowances EXCEPT ![fromAddress][sender] = Sub(@, amount)]
                       ELSE c.allowances
    IN  IF ~(amount <= c.ledger[fromAddress]) THEN Revert(L, 109)
        ELSE IF ~(sender = fromAddress \/ c.allowances[fromAddress][sender] >= amount)
             THEN Revert(L, 110)
        ELSE Return([L EXCEPT ![l].ledger = ledger2, ![l].allowances = allowances1],
                    <<TransferEv(l, fromAddress, toAddress, amount)>>)

\* transfer that spends the allowance the sender granted to itself
transferNeedsSelfAllowance(L, l, sender, _to, _value) ==
    LET c == L[l]
        ledger1 == [c.ledger EXCEPT ![_to] = Add(@, _value)]
        ledger2 == [ledger1 EXCEPT ![sender] = Sub(@, _value)]
    IN  IF ~(_value <= c.ledger[sender]) THEN Revert(L, 109)
        ELSE IF ~(c.allowances[sender][sender] >= _value) THEN Revert(L, 110)
        ELSE Return([L EXCEPT ![l].ledger = ledger2,
                              ![l].allowances[sender][sender] = Sub(@, _value)],
                    <<TransferEv(l, sender, _to, _value)>>)

transfer(L, l, sender, _to, _value) == _changeHands(L, l, sender, sender, _to, _value)

transferFrom(L, l, sender, _from, _to, _value) == _changeHands(L, l, sender, _from, _to, _value)

\* whitelistContractForReclamation without the require of line 140
whitelistContractForReclamationNoGuard(L, l, sender, oldNeuron) ==
    Return([L EXCEPT ![l].reclamationWhitelist[oldNeuron] = TRUE], <<>>)

whitelistContractForReclamation(L, l, sender, oldNeuron) ==
    IF ~hasMastery(L[l], sender) THEN Revert(L, 140)
    ELSE Return([L EXCEPT ![l].reclamationWhitelist[oldNeuron] = TRUE], <<>>)

\* reclaimBalanceFrom without the whitelist requirement of line 149
reclaimBalanceFromNoWhitelist(L, l, sender, oldNeuron, account, amount) ==
    IF oldNeuron \notin Ledgers THEN Revert(L, 150)
    ELSE LET r1 == transferFrom(L, oldNeuron, l, account, l, amount)
             r2 == increaseSupply(r1.L, l, l, amount)
             r3 == transfer(r2.L, l, l, account, amount)
         IN  IF ~r1.ok THEN Revert(L, 150)
             ELSE IF ~r2.ok THEN Revert(L, 154)
             ELSE IF ~r3.ok THEN Revert(L, 155)
             ELSE Return(r3.L, r1.logs \o r3.logs)

\* reclaimBalanceFrom that keeps the reclaimed tokens: no line 155
reclaimBalanceFromNoPayout(L, l, sender, oldNeuron, account, amount) ==
    IF ~L[l].reclamationWhitelist[oldNeuron] THEN Revert(L, 149)
    ELSE IF oldNeuron \notin Ledgers THEN Revert(L, 150)
    ELSE LET r1 == transferFrom(L, oldNeuron, l, account, l, amount)
             r2 == increaseSupply(r1.L, l, l, amount)
         IN  IF ~r1.ok THEN Revert(L, 150)
             ELSE IF ~r2.ok THEN Revert(L, 154)
             ELSE Return(r2.L, r1.logs)

\* reclaimBalanceFrom that ignores the failure of the mint of line 154, as a
\* low-level call would: the pull on the old token stays
reclaimBalanceFromNoRollback(L, l, sender, oldNeuron, account, amount) ==
    IF ~L[l].reclamationWhitelist[oldNeuron] THEN Revert(L, 149)
    ELSE IF oldNeuron \notin Ledgers THEN Revert(L, 150)
    ELSE LET r1 == transferFrom(L, oldNeuron, l, account, l, amount)
             r2 == increaseSupply(r1.L, l, l, amount)
             r3 == transfer(r2.L, l, l, account, amount)
         IN  IF ~r1.ok THEN Revert(L, 150)
             ELSE IF ~r2.ok THEN [Revert(r1.L, 154) EXCEPT !.logs = r1.logs]
             ELSE IF ~r3.ok THEN Revert(L, 155)
             ELSE Return(r3.L, r1.logs \o r3.logs)

\* reclaimBalanceFrom whose line 155 pays msg.sender instead of account
reclaimBalanceFromPaysCaller(L, l, sender, oldNeuron, account, amount) ==
    IF ~L[l].reclamationWhitelist[oldNeuron] THEN Revert(L, 149)
    ELSE IF oldNeuron \notin Ledgers THEN Revert(L, 150)
    ELSE LET r1 == transferFrom(L, oldNeuron, l, account, l, amount)
             r2 == increaseSupply(r1.L, l, l, amount)
             r3 == transfer(r2.L, l, l, sender, amount)
         IN  IF ~r1.ok THEN Revert(L, 150)
             ELSE IF ~r2.ok THEN Revert(L, 154)
             ELSE IF ~r3.ok THEN Revert(L, 155)
             ELSE Return(r3.L, r1.logs \o r3.logs)

\* The three inner calls are external calls made by the instance l itself, so
\* msg.sender in them is l; a revert in any of them reverts the whole call.
\* A call to an address that holds no Neuron code reverts.
reclaimBalanceFrom(L, l, sender, oldNeuron, account, amount) ==
    IF ~L[l].reclamationWhitelist[oldNeuron] THEN Revert(L, 149)
    ELSE IF oldNeuron \notin Ledgers THEN Revert(L, 150)
    ELSE LET r1 == transferFrom(L, oldNeuron, l, account, l, amount)
             r2 == increaseSupply(r1.L, l, l, amount)
             r3 == transfer(r2.L, l, l, account, amount)
         IN  IF ~r1.ok THEN Revert(L, 150)
             ELSE IF ~r2.ok THEN Revert(L, 154)
             ELSE IF ~r3.ok THEN Revert(L, 155)
             ELSE Return(r3.L, r1.logs \o r3.logs)


---------------------------------------------------------------------------
(* Stimulus: the enrollment and reward contract *)

Unset == 0

Pending == 1

Rejected == 2

Accepted == 3

\* number of entries of the rewards array
NumRewards == 5

StimulusRequestEv(candidate, stimulusType, stimulusId) ==
    [kind |-> "StimulusRequest", at |-> StimulusAddr, candidate |-> candidate,
     stimulusType |-> stimulusType, stimulusId |-> stimulusId]

StimulusResponseEv(candidate, stimulusType, stimulusId, accepted) ==
    [kind |-> "StimulusResponse", at |-> StimulusAddr, candidate |-> candidate,
     stimulusType |-> stimulusType, stimulusId |-> stimulusId, accepted |-> accepted]

\* line is the line of src/stimulus.sol whose require failed
RevertS(L, P, line) == [ok |-> FALSE, L |-> L, P |-> P, logs |-> <<>>, line |-> line]

ReturnS(L, P, logs) == [ok |-> TRUE, L |-> L, P |-> P, logs |-> logs, line |-> 0]

status(P, participant) == P[participant]

\* enroll without the assignment of line 68
enrollKeepsStatus(L, P, sender, stimulusId) ==
    IF ~(P[sender] # 2) THEN RevertS(L, P, 67)
    ELSE ReturnS(L, P, <<StimulusRequestEv(sender, 0, stimulusId)>>)

\* enroll without the require of line 67
enrollNoGuard(L, P, sender, stimulusId) ==
    ReturnS(L, [P EXCEPT ![sender] = 1], <<StimulusRequestEv(sender, 0, stimulusId)>>)

enroll(L, P, sender, stimulusId) ==
    IF ~(P[sender] # 2) THEN RevertS(L, P, 67)
    ELSE ReturnS(L, [P EXCEPT ![sender] = 1],
                 <<StimulusRequestEv(sender, 0, stimulusId)>>)

\* submit that is content with a pending enrollment
submitAcceptsPending(L, P, sender, stimulusType, stimulusId) ==
    IF ~(P[sender] = 3 \/ P[sender] = 1) THEN RevertS(L, P, 74)
    ELSE IF ~(stimulusType > 0) THEN RevertS(L, P, 75)
    ELSE IF ~(stimulusType < 5) THEN RevertS(L, P, 76)
    ELSE ReturnS(L, P, <<StimulusRequestEv(sender, stimulusType, stimulusId)>>)

\* submit without the require of line 74
submitNoStatusCheck(L, P, sender, stimulusType, stimulusId) ==
    IF ~(stimulusType > 0) THEN RevertS(L, P, 75)
    ELSE IF ~(stimulusType < 5) THEN RevertS(L, P, 76)
    ELSE ReturnS(L, P, <<StimulusRequestEv(sender, stimulusType, stimulusId)>>)

submit(L, P, sender, stimulusType, stimulusId) ==
    IF ~(P[sender] = 3) THEN RevertS(L, P, 74)
    ELSE IF ~(stimulusType > 0) THEN RevertS(L, P, 75)
    ELSE IF ~(stimulusType < 5) THEN RevertS(L, P, 76)
    ELSE ReturnS(L, P, <<StimulusRequestEv(sender, stimulusType, stimulusId)>>)

\* respondToEnrollment without the require of line 82
respondToEnrollmentAnyCaller(L, P, sender, candidate, stimulusId, accept) ==
    IF accept
    THEN LET r == transferFrom(L, nrn, StimulusAddr, principalInvestigator,
                               candidate, rewards[0])
         IN  IF ~r.ok THEN RevertS(L, P, 84)
             ELSE ReturnS(r.L, [P EXCEPT ![candidate] = 3],
                          r.logs \o <<StimulusResponseEv(candidate, 0, stimulusId, accept)>>)
    ELSE ReturnS(L, [P EXCEPT ![candidate] = 2],
                 <<StimulusResponseEv(candidate, 0, stimulusId, accept)>>)

\* respondToEnrollment that accepts without paying the reward of line 84
respondToEnrollmentNoPayment(L, P, sender, candidate, stimulusId, accept) ==
    IF ~(sender = principalInvestigator) THEN RevertS(L, P, 82)
    ELSE IF accept
         THEN ReturnS(L, [P EXCEPT ![candidate] = 3],
                      <<StimulusResponseEv(candidate, 0, stimulusId, accept)>>)
         ELSE ReturnS(L, [P EXCEPT ![candidate] = 2],
                      <<StimulusResponseEv(candidate, 0, stimulusId, accept)>>)

\* respondToEnrollment that drops the require around the transfer of line 84
respondToEnrollmentUnchecked(L, P, sender, candidate, stimulusId, accept) ==
    IF ~(sender = principalInvestigator) THEN RevertS(L, P, 82)
    ELSE IF accept
         THEN LET r == transferFrom(L, nrn, StimulusAddr, principalInvestigator,
                                    candidate, rewards[0])
              IN  ReturnS(r.L, [P EXCEPT ![candidate] = 3],
                          r.logs \o <<StimulusResponseEv(candidate, 0, stimulusId, accept)>>)
         ELSE ReturnS(L, [P EXCEPT ![candidate] = 2],
                      <<StimulusResponseEv(candidate, 0, stimulusId, accept)>>)

\* respondToEnrollment that makes the transfer of line 84 before the branch
\* on accept
respondToEnrollmentAlwaysPays(L, P, sender, candidate, stimulusId, accept) ==
    IF ~(sender = principalInvestigator) THEN RevertS(L, P, 82)
    ELSE LET r == transferFrom(L, nrn, StimulusAddr, principalInvestigator,
                               candidate, rewards[0])
         IN  IF ~r.ok THEN RevertS(L, P, 84)
             ELSE ReturnS(r.L, [P EXCEPT ![candidate] = IF accept THEN 3 ELSE 2],
                          r.logs \o <<StimulusResponseEv(candidate, 0, stimulusId, accept)>>)

\* respondToEnrollment that pays a candidate's enrollment once: accepting a
\* candidate who is accepted already moves nothing
respondToEnrollmentPaysOnce(L, P, sender, candidate, stimulusId, accept) ==
    IF ~(sender = principalInvestigator) THEN RevertS(L, P, 82)
    ELSE IF accept /\ P[candidate] # 3
         THEN LET r == transferFrom(L, nrn, StimulusAddr, principalInvestigator,
                                    candidate, rewards[0])
              IN  IF ~r.ok THEN RevertS(L, P, 84)
                  ELSE ReturnS(r.L, [P EXCEPT ![candidate] = 3],
                               r.logs \o <<StimulusResponseEv(candidate, 0, stimulusId, accept)>>)
         ELSE ReturnS(L, [P EXCEPT ![candidate] = IF accept THEN 3 ELSE 2],
                      <<StimulusResponseEv(candidate, 0, stimulusId, accept)>>)

\* nrn.transferFrom is an external call made by the Stimulus instance, so
\* msg.sender in it is the address of the Stimulus.
respondToEnrollment(L, P, sender, candidate, stimulusId, accept) ==
    IF ~(sender = principalInvestigator) THEN RevertS(L, P, 82)
    ELSE IF accept
         THEN LET r == transferFrom(L, nrn, StimulusAddr, principalInvestigator,
                                    candidate, rewards[0])
              IN  IF ~r.ok THEN RevertS(L, P, 84)
                  ELSE ReturnS(r.L, [P EXCEPT ![candidate] = 3],
                               r.logs \o <<StimulusResponseEv(candidate, 0, stimulusId, accept)>>)
         ELSE ReturnS(L, [P EXCEPT ![candidate] = 2],
                      <<StimulusResponseEv(candidate, 0, stimulusId, accept)>>)

\* respond that answers accepted participants only
respondRequiresAccepted(L, P, sender, candidate, stimulusType, stimulusId, accept) ==
    IF ~(sender = principalInvestigator) THEN RevertS(L, P, 94)
    ELSE IF ~(P[candidate] = 3) THEN RevertS(L, P, 94)
    ELSE IF ~(stimulusType > 0) THEN RevertS(L, P, 95)
    ELSE IF ~(stimulusType < 5) THEN RevertS(L, P, 96)
    ELSE IF accept
         THEN LET r == transferFrom(L, nrn, StimulusAddr, principalInvestigator,
                                    candidate, rewards[stimulusType])
              IN  IF ~r.ok THEN RevertS(L, P, 98)
                  ELSE ReturnS(r.L, P,
                               r.logs \o <<StimulusResponseEv(candidate, stimulusType,
                                                              stimulusId, accept)>>)
         ELSE ReturnS(L, P, <<StimulusResponseEv(candidate, stimulusType, stimulusId, accept)>>)

\* respond that pays the reward whether it accepts or rejects
respondAlwaysPays(L, P, sender, candidate, stimulusType, stimulusId, accept) ==
    IF ~(sender = principalInvestigator) THEN RevertS(L, P, 94)
    ELSE IF ~(stimulusType > 0) THEN RevertS(L, P, 95)
    ELSE IF ~(stimulusType < 5) THEN RevertS(L, P, 96)
    ELSE LET r == transferFrom(L, nrn, StimulusAddr, principalInvestigator,
                               candidate, rewards[stimulusType])
         IN  IF ~r.ok THEN RevertS(L, P, 98)
             ELSE ReturnS(r.L, P,
                          r.logs \o <<StimulusResponseEv(candidate, stimulusType,
                                                         stimulusId, accept)>>)

\* respond that pays rewards[0] whatever the stimulusType
respondPaysEnrollmentReward(L, P, sender, candidate, stimulusType, stimulusId, accept) ==
    IF ~(sender = principalInvestigator) THEN RevertS(L, P, 94)
    ELSE IF ~(stimulusType > 0) THEN RevertS(L, P, 95)
    ELSE IF ~(stimulusType < 5) THEN RevertS(L, P, 96)
    ELSE IF accept
         THEN LET r == transferFrom(L, nrn, StimulusAddr, principalInvestigator,
                                    candidate, rewards[0])
              IN  IF ~r.ok THEN RevertS(L, P, 98)
                  ELSE ReturnS(r.L, P,
                               r.logs \o <<StimulusResponseEv(candidate, stimulusType,
                                                              stimulusId, accept)>>)
         ELSE ReturnS(L, P, <<StimulusResponseEv(candidate, stimulusType, stimulusId, accept)>>)

\* respond that marks the candidate Accepted when it pays
respondSetsStatus(L, P, sender, candidate, stimulusType, stimulusId, accept) ==
    IF ~(sender = principalInvestigator) THEN RevertS(L, P, 94)
    ELSE IF ~(stimulusType > 0) THEN RevertS(L, P, 95)
    ELSE IF ~(stimulusType < 5) THEN RevertS(L, P, 96)
    ELSE IF accept
         THEN LET r == transferFrom(L, nrn, StimulusAddr, principalInvestigator,
                                    candidate, rewards[stimulusType])
              IN  IF ~r.ok THEN RevertS(L, P, 98)
                  ELSE ReturnS(r.L, [P EXCEPT ![candidate] = 3],
                               r.logs \o <<StimulusResponseEv(candidate, stimulusType,
                                                              stimulusId, accept)>>)
         ELSE ReturnS(L, P, <<StimulusResponseEv(candidate, stimulusType, stimulusId, accept)>>)

respond(L, P, sender, candidate, stimulusType, stimulusId, accept) ==
    IF ~(sender = principalInvestigator) THEN RevertS(L, P, 94)
    ELSE IF ~(stimulusType > 0) THEN RevertS(L, P, 95)
    ELSE IF ~(stimulusType < 5) THEN RevertS(L, P, 96)
    ELSE IF accept
         THEN LET r == transferFrom(L, nrn, StimulusAddr, principalInvestigator,
                                    candidate, rewards[stimulusType])
              IN  IF ~r.ok THEN RevertS(L, P, 98)
                  ELSE ReturnS(r.L, P,
                               r.logs \o <<StimulusResponseEv(candidate, stimulusType,
                                                              stimulusId, accept)>>)
         ELSE ReturnS(L, P, <<StimulusResponseEv(candidate, stimulusType, stimulusId, accept)>>)

---------------------------------------------------------------------------
(* Transactions: one action per public method.  Each takes the sets its    *)
(* inputs are drawn from.                                                  *)

\* values a caller may pass for a uint256 argument
Amounts == Uint

\* values a caller may pass for the uint8 stimulusType
StimulusTypes == 0..NumRewards

StimulusIds == {5}

\* the number of events the observer keeps before it ends its run
MaxLog == 2

\* the events among logs that were emitted by a contract in the set from
Filter(logs, from) == SelectSeq(logs, LAMBDA e : e.at \in from)

\* emit that replaces what was logged before
EmitOverwrites(logs) ==
    /\ Len(log) + Len(Filter(logs, observer)) <= MaxLog
    /\ log' = IF Filter(logs, observer) = <<>> THEN log ELSE Filter(logs, observer)
    /\ UNCHANGED observer

\* the emit statements of a transaction: its events, in the order emitted,
\* are appended to the log; the observer receives those of the contracts it
\* subscribed to
Emit(logs) ==
    /\ Len(log) + Len(Filter(logs, observer)) <= MaxLog
    /\ log' = log \o Filter(logs, observer)
    /\ UNCHANGED observer

\* commit the outcome r of method op of the Neuron instance l
Do(r, op, l, sender) ==
    /\ ledgers' = r.L
    /\ receipt' = [op |-> op, at |-> l, sender |-> sender, ok |-> r.ok, line |-> r.line]
    /\ Emit(r.logs)
    /\ UNCHANGED stimVars

\* a commit after which whoever sent the call is the principal investigator
DoSSenderBecomesPI(r, op, sender) ==
    /\ ledgers' = r.L
    /\ participants' = r.P
    /\ receipt' = [op |-> op, at |-> StimulusAddr, sender |-> sender, ok |-> r.ok,
                   line |-> r.line]
    /\ principalInvestigator' = sender
    /\ Emit(r.logs)
    /\ UNCHANGED <<nrn, rewards>>

\* commit the outcome r of method op of the Stimulus
DoS(r, op, sender) ==
    /\ ledgers' = r.L
    /\ participants' = r.P
    /\ receipt' = [op |-> op, at |-> StimulusAddr, sender |-> sender, ok |-> r.ok,
                   line |-> r.line]
    /\ Emit(r.logs)
    /\ UNCHANGED <<nrn, principalInvestigator, rewards>>

CallTransfer(l, Senders, Tos) ==
    \E sender \in Senders, to \in Tos, v \in Amounts :
        Do(transfer(ledgers, l, sender, to, v), "transfer", l, sender)

CallTransferFrom(l, Senders, Froms, Tos) ==
    \E sender \in Senders, from \in Froms, to \in Tos, v \in Amounts :
        Do(transferFrom(ledgers, l, sender, from, to, v), "transferFrom", l, sender)

CallApprove(l, Senders, Spenders) ==
    \E sender \in Senders, entity \in Spenders, v \in Amounts :
        Do(approve(ledgers, l, sender, entity, v), "approve", l, sender)

CallIncreaseSupply(l, Senders) ==
    \E sender \in Senders, v \in Amounts :
        Do(increaseSupply(ledgers, l, sender, v), "increaseSupply", l, sender)

CallDecreaseSupply(l, Senders) ==
    \E sender \in Senders, v \in Amounts :
        Do(decreaseSupply(ledgers, l, sender, v), "decreaseSupply", l, sender)

CallChangeMastery(l, Senders, Masters) ==
    \E sender \in Senders, m \in Masters :
        Do(changeMastery(ledgers, l, sender, m), "changeMastery", l, sender)

CallChangeName(l, Senders) ==
    \E sender \in Senders, n \in Names :
        Do(changeName(ledgers, l, sender, n), "changeName", l, sender)

CallChangeSymbol(l, Senders) ==
    \E sender \in Senders, s \in Symbols :
        Do(changeSymbol(ledgers, l, sender, s), "changeSymbol", l, sender)

CallWhitelist(l, Senders, Olds) ==
    \E sender \in Senders, old \in Olds :
        Do(whitelistContractForReclamation(ledgers, l, sender, old),
           "whitelistContractForReclamation", l, sender)

CallReclaim(l, Senders, Olds, Accounts) ==
    \E sender \in Senders, old \in Olds, account \in Accounts, v \in Amounts :
        Do(reclaimBalanceFrom(ledgers, l, sender, old, account, v),
           "reclaimBalanceFrom", l, sender)

CallEnroll(Senders) ==
    \E sender \in Senders, id \in StimulusIds :
        DoS(enroll(ledgers, participants, sender, id), "enroll", sender)

CallSubmit(Senders) ==
    \E sender \in Senders, t \in StimulusTypes, id \in StimulusIds :
        DoS(submit(ledgers, participants, sender, t, id), "submit", sender)

CallRespondToEnrollment(Senders, Candidates) ==
    \E sender \in Senders, candidate \in Candidates, id \in StimulusIds, accept \in BOOLEAN :
        DoS(respondToEnrollment(ledgers, participants, sender, candidate, id, accept),
            "respondToEnrollment", sender)

CallRespond(Senders, Candidates) ==
    \E sender \in Senders, candidate \in Candidates, t \in StimulusTypes,
       id \in StimulusIds, accept \in BOOLEAN :
        DoS(respond(ledgers, participants, sender, candidate, t, id, accept), "respond", sender)

---------------------------------------------------------------------------
(* Deployment and specifications *)

\* the _rewards array the Stimulus is constructed with
Rewards == [i \in 0..(NumRewards - 1) |-> IF i = 2 THEN 0 ELSE IF i = 4 THEN 2 ELSE 1]

\* A deploys the old token O, D deploys the new token N and then the
\* Stimulus, which pays in N.
Deployment ==
    /\ ledgers = [l \in Ledgers |->
                    IF l = "N" THEN Constructor("D", "Neuron", "NRN", 1)
                    ELSE Constructor("A", "Neuron", "NRN", 2)]
    /\ nrn = "N"
    /\ principalInvestigator = "D"
    /\ rewards = Rewards
    /\ participants = [a \in Addr |-> Unset]
    /\ receipt = [op |-> "constructor", at |-> StimulusAddr, sender |-> "D",
                  ok |-> TRUE, line |-> 0]

\* the deployment with nobody subscribed to the events
Init ==
    /\ Deployment
    /\ log = <<>>
    /\ observer = {}

\* the deployment with an observer subscribed to the events of the Stimulus
InitLog ==
    /\ Deployment
    /\ log = <<>>
    /\ observer = {StimulusAddr}

\* the externally owned accounts that send transactions
Callers == {"D", "A"}

\* the token methods of one Neuron instance
Next ==
    \/ CallTransfer("N", Callers, Users)
    \/ CallTransferFrom("N", Callers, Callers, Users)
    \/ CallApprove("N", {"D"}, {"A"})
    \/ CallApprove("N", {"A"}, {"D"})
    \/ CallIncreaseSupply("N", Callers)
    \/ CallDecreaseSupply("N", Callers)

Spec == Init /\ [][Next]_vars

\* the methods of one Neuron instance that are reserved to its master
NextAdmin ==
    \/ CallChangeMastery("N", Callers, Callers)
    \/ CallChangeName("N", Callers)
    \/ CallChangeSymbol("N", Callers)
    \/ CallIncreaseSupply("N", Callers)
    \/ CallDecreaseSupply("N", Callers)
    \/ CallWhitelist("N", Callers, Ledgers)
    \/ CallTransfer("N", Callers, Callers)

SpecAdmin == Init /\ [][NextAdmin]_vars

\* every method that moves tokens or changes the supply of N: the token
\* methods, reclamation from O and the reward payouts of the Stimulus
NextSupply ==
    \/ CallTransfer("N", Callers, Callers)
    \/ CallTransferFrom("N", {"A"}, {"D"}, Callers)
    \/ CallApprove("N", {"D"}, {"A", StimulusAddr})
    \/ CallIncreaseSupply("N", Callers)
    \/ CallDecreaseSupply("N", Callers)
    \/ CallChangeMastery("N", Callers, Callers)
    \/ CallWhitelist("N", Callers, {"O"})
    \/ CallReclaim("N", Callers, {"O"}, {"A"})
    \/ CallApprove("O", {"A"}, {"N"})
    \/ CallRespond(Callers, {"A"})

SpecSupply == Init /\ [][NextSupply]_vars

\* reclamation by N from the old token O: holders of O approve N on O, the
\* master of N whitelists, anyone reclaims; the master of N mints and burns
NextReclaim ==
    \/ CallApprove("O", Callers, {"N"})
    \/ CallTransfer("O", Callers, Callers)
    \/ CallWhitelist("N", Callers, Ledgers)
    \/ CallReclaim("N", Callers, Ledgers, Callers \cup {"N"})
    \/ CallIncreaseSupply("N", Callers)
    \/ CallDecreaseSupply("N", Callers)

SpecReclaim == Init /\ [][NextReclaim]_vars

\* every method of the Stimulus; the PI mints N and approves the Stimulus
NextStimulus ==
    \/ CallEnroll(Callers)
    \/ CallSubmit(Callers)
    \/ CallRespondToEnrollment(Callers, Users)
    \/ CallRespond(Callers, Users)
    \/ CallApprove("N", {"D"}, {StimulusAddr})
    \/ CallIncreaseSupply("N", {"D"})

SpecStimulus == Init /\ [][NextStimulus]_vars

\* the life of the whitelist of N: mastery of N passes between D and A,
\* whoever calls may try to whitelist, holders of O approve N and reclaim,
\* and N's tokens are minted and moved in between
NextWhitelist ==
    \/ CallWhitelist("N", Callers, Ledgers)
    \/ CallChangeMastery("N", Callers, Callers)
    \/ CallApprove("O", {"A"}, {"N"})
    \/ CallReclaim("N", {"A"}, Ledgers, {"A"})
    \/ CallTransfer("N", {"A"}, {"D"})
    \/ CallIncreaseSupply("N", Callers)
    \/ CallChangeName("N", Callers)

SpecWhitelist == Init /\ [][NextWhitelist]_vars

\* the master's methods next to the allowance protocol: mastery of N passes
\* between D and A, the master mints, burns, renames and whitelists, A grants
\* D an allowance and D spends it
NextMaster ==
    \/ CallChangeMastery("N", Callers, Callers)
    \/ CallIncreaseSupply("N", Callers)
    \/ CallDecreaseSupply("N", Callers)
    \/ CallChangeName("N", {"D"})
    \/ CallChangeSymbol("N", {"A"})
    \/ CallWhitelist("N", {"D"}, {"O"})
    \/ CallApprove("N", {"A"}, {"D"})
    \/ CallTransfer("N", {"D"}, {"A"})
    \/ CallTransferFrom("N", {"D"}, {"A"}, {"D", "B"})

SpecMaster == Init /\ [][NextMaster]_vars

\* N as any of the users may create it, with any name, symbol and initial
\* supply, next to A's old token O and D's Stimulus
InitDeploy ==
    \E creator \in Users, n \in Names, y \in Symbols, initialSupply \in Uint :
        /\ ledgers = [l \in Ledgers |->
                        IF l = "N" THEN Constructor(creator, n, y, initialSupply)
                        ELSE Constructor("A", "Neuron", "NRN", 2)]
        /\ nrn = "N"
        /\ principalInvestigator = "D"
        /\ rewards = Rewards
        /\ participants = [a \in Addr |-> Unset]
        /\ receipt = [op |-> "constructor", at |-> "N", sender |-> creator,
                      ok |-> TRUE, line |-> 0]
        /\ log = <<>>
        /\ observer = {}

\* the first transactions a new ledger sees
NextDeploy ==
    \/ CallTransfer("N", Users, Callers)
    \/ CallIncreaseSupply("N", Users)
    \/ CallChangeName("N", Users)

SpecDeploy == InitDeploy /\ [][NextDeploy]_vars

\* the data trial of one candidate as the observer of the Stimulus sees it:
\* A enrolls and submits, the PI approves the Stimulus and responds
NextLog ==
    \/ CallEnroll({"A"})
    \/ CallSubmit({"A"})
    \/ CallRespondToEnrollment({"D"}, {"A"})
    \/ CallRespond({"D"}, {"A"})
    \/ CallApprove("N", {"D"}, {StimulusAddr})

SpecLog == InitLog /\ [][NextLog]_vars

\* the payouts of the Stimulus as its observer sees them: the PI mints,
\* approves the Stimulus and responds to A, who may enroll and holds what it
\* is paid
NextPayout ==
    \/ CallEnroll({"A"})
    \/ CallRespondToEnrollment({"D"}, {"A"})
    \/ CallRespond({"D"}, {"A"})
    \/ CallApprove("N", {"D"}, {StimulusAddr})
    \/ CallIncreaseSupply("N", {"D"})

SpecPayout == InitLog /\ [][NextPayout]_vars

\* the deployment with an observer subscribed to the events of N
InitAllowance ==
    /\ Deployment
    /\ log = <<>>
    /\ observer = {"N"}

\* the allowance D grants to A on N, interleaved with A's spending of it;
\* D mints and burns but sends no token itself, so that every Transfer from
\* D in the log is a transferFrom of A
NextAllowance ==
    \/ CallApprove("N", {"D"}, {"A"})
    \/ CallTransferFrom("N", {"A"}, {"D"}, Users)
    \/ CallIncreaseSupply("N", {"D"})
    \/ CallDecreaseSupply("N", {"D"})

SpecAllowance == InitAllowance /\ [][NextAllowance]_vars

\* an old ledger O of creator A and a new ledger N created with no supply
InitBacking ==
    /\ ledgers = [l \in Ledgers |->
                    IF l = "N" THEN Constructor("D", "Neuron", "NRN", 0)
                    ELSE Constructor("A", "Neuron", "NRN", 2)]
    /\ nrn = "N"
    /\ principalInvestigator = "D"
    /\ rewards = Rewards
    /\ participants = [a \in Addr |-> Unset]
    /\ receipt = [op |-> "constructor", at |-> "N", sender |-> "D",
                  ok |-> TRUE, line |-> 0]
    /\ log = <<>>
    /\ observer = {}

\* the migration from O to N: the holders of O approve N, send tokens of O
\* (to N's address too), reclaim and try to pull the tokens N holds on O;
\* the master of N whitelists and never mints or burns
NextBacking ==
    \/ CallWhitelist("N", Callers, {"O"})
    \/ CallApprove("O", {"A"}, {"N"})
    \/ CallTransfer("O", {"A"}, {"D", "N"})
    \/ CallReclaim("N", Callers, {"O"}, {"A", "D", "N"})
    \/ CallTransferFrom("O", Callers, {"N"}, Callers)
    \/ CallTransfer("N", Callers, Callers)

SpecBacking == InitBacking /\ [][NextBacking]_vars

---------------------------------------------------------------------------
(* Properties *)

\* C1: in every reachable state the totalSupply of every ledger equals the
\* sum of the balances of all accounts, the ledger's own address included.
C1_SupplyIsSumOfBalances ==
    \A l \in Ledgers : ledgers[l].totalSupply = SumOver(ledgers[l].ledger, Addr)

\* a reclamation has just minted on N what it pulled into N's account on O
C1_Witness ==
    /\ receipt.op = "reclaimBalanceFrom" /\ receipt.ok
    /\ ledgers["N"].totalSupply = 2
    /\ ledgers["N"].ledger["A"] = 1
    /\ ledgers["O"].ledger["N"] = 1

\* C2: transfer and transferFrom never succeed when amount > balances[from]
\* (the unsigned encoding of a negative amount included, whenever it exceeds
\* the balance); the failed call changes no storage and emits no event.
C2_NoTransferBeyondBalance ==
    \A l \in Ledgers, sender \in Addr, from \in Addr, to \in Users,
       v \in Uint \cup {Sub(0, 1)} :
        v > ledgers[l].ledger[from] =>
            LET r == transferFrom(ledgers, l, sender, from, to, v)
                t == transfer(ledgers, l, from, to, v)
            IN  /\ ~r.ok /\ r.L = ledgers /\ r.logs = <<>>
                /\ ~t.ok /\ t.L = ledgers /\ t.logs = <<>>

\* A, holding an allowance of 2 from D, has just been refused at the balance
\* check: D owns a single token
C2_Witness ==
    /\ receipt.op = "transferFrom" /\ ~receipt.ok /\ receipt.line = 109
    /\ receipt.sender = "A"
    /\ ledgers["N"].allowances["D"]["A"] = 2
    /\ ledgers["N"].ledger["D"] = 1
    /\ ledgers["N"].ledger["A"] = 0

\* a transferFrom by a spender whose allowance is below the amount fails and
\* changes nothing
C3_InsufficientAllowanceFails ==
    \A l \in Ledgers, sender \in Addr, from \in Addr, to \in Users, v \in Uint :
        (sender # from /\ ledgers[l].allowances[from][sender] < v) =>
            LET r == transferFrom(ledgers, l, sender, from, to, v)
            IN  ~r.ok /\ r.L = ledgers /\ r.logs = <<>>

\* a step that lowers the balance of an account is a transaction of that
\* account, or consumes as much of an allowance that account granted to the
\* sender
C3_DebitIsAuthorized ==
    \A l \in Ledgers, a \in Addr :
        ledgers'[l].ledger[a] < ledgers[l].ledger[a] =>
            \/ receipt'.sender = a
            \/ LET debit == ledgers[l].ledger[a] - ledgers'[l].ledger[a]
                   granted == ledgers[l].allowances[a][receipt'.sender]
               IN  /\ receipt'.op = "transferFrom"
                   /\ granted >= debit
                   /\ ledgers'[l].allowances[a][receipt'.sender] = granted - debit

\* C3: transferFrom by caller # from fails whenever allowances[from][caller]
\* < amount, leaving the allowance and all balances unchanged; and no step
\* moves tokens out of another account's balance without a sufficient
\* allowance granted by that account.
C3_NoSpendingBeyondAllowance ==
    []C3_InsufficientAllowanceFails /\ [][C3_DebitIsAuthorized]_vars

\* A has just been refused at the allowance check: D owns 2 tokens and has
\* granted A an allowance of 1
C3_Witness ==
    /\ receipt.op = "transferFrom" /\ ~receipt.ok /\ receipt.line = 110
    /\ receipt.sender = "A"
    /\ ledgers["N"].allowances["D"]["A"] = 1
    /\ ledgers["N"].ledger["D"] = 2

\* C4: a successful transferFrom(caller, from, to, amount) with caller # from
\* and from # to lowers balances[from] and allowances[from][caller] by amount,
\* raises balances[to] by amount (none of them wrapping) and changes nothing
\* else: no other balance, no other allowance, not totalSupply.
C4_TransferFromEffect ==
    \A l \in Ledgers, sender \in Addr, from \in Addr, to \in Users, v \in Uint :
        LET r == transferFrom(ledgers, l, sender, from, to, v)
        IN  (sender # from /\ from # to /\ r.ok) =>
                /\ r.L = [ledgers EXCEPT ![l].ledger[from] = @ - v,
                                         ![l].ledger[to] = @ + v,
                                         ![l].allowances[from][sender] = @ - v]
                /\ r.L[l].ledger[from] \in Uint
                /\ r.L[l].ledger[to] \in Uint
                /\ r.L[l].allowances[from][sender] \in Uint
                /\ r.logs = <<TransferEv(l, from, to, v)>>

\* D, owning 2, granted A an allowance of 2, and A has moved 1 of it to B
C4_Witness ==
    /\ receipt.op = "transferFrom" /\ receipt.ok /\ receipt.sender = "A"
    /\ ledgers["N"].allowances["D"]["A"] = 1
    /\ ledgers["N"].ledger["D"] = 1
    /\ ledgers["N"].ledger["B"] = 1
    /\ ledgers["N"].totalSupply = 2

\* C5: approve(caller, spender, amount) fails, changing nothing and emitting
\* nothing, exactly when amount # 0 and allowances[caller][spender] # 0;
\* otherwise it sets the allowance to amount and emits Approval(caller,
\* spender, amount).  So a successful approve of a nonzero X immediately
\* followed by an approve of a nonzero Y fails.
C5_ApproveGuard ==
    \A l \in Ledgers, sender \in Addr, entity \in Addr, v \in Uint :
        LET r == approve(ledgers, l, sender, entity, v)
        IN  /\ IF v # 0 /\ ledgers[l].allowances[sender][entity] # 0
               THEN ~r.ok /\ r.L = ledgers /\ r.logs = <<>>
               ELSE /\ r.ok
                    /\ r.L = [ledgers EXCEPT ![l].allowances[sender][entity] = v]
                    /\ r.logs = <<ApprovalEv(l, sender, entity, v)>>
            /\ (r.ok /\ v # 0) =>
                   \A w \in Uint \ {0} :
                       LET r2 == approve(r.L, l, sender, entity, w)
                       IN  ~r2.ok /\ r2.L = r.L

\* D's approve has just been refused by the guard while A's allowance is 1
C5_Witness ==
    /\ receipt.op = "approve" /\ ~receipt.ok /\ receipt.line = 93
    /\ receipt.sender = "D"
    /\ ledgers["N"].allowances["D"]["A"] = 1

\* the master-only methods all revert for sender and change nothing
MasterOnlyCallsFail(L, l, sender) ==
    /\ \A v \in Uint :
           LET i == increaseSupply(L, l, sender, v)
               d == decreaseSupply(L, l, sender, v)
           IN  ~i.ok /\ i.L = L /\ ~d.ok /\ d.L = L
    /\ \A m \in Addr :
           LET r == changeMastery(L, l, sender, m) IN ~r.ok /\ r.L = L
    /\ \A n \in Names :
           LET r == changeName(L, l, sender, n) IN ~r.ok /\ r.L = L
    /\ \A y \in Symbols :
           LET r == changeSymbol(L, l, sender, y) IN ~r.ok /\ r.L = L
    /\ \A old \in Addr :
           LET r == whitelistContractForReclamation(L, l, sender, old)
           IN  ~r.ok /\ r.L = L

\* C6 as stated: the master-only methods fail for every sender that is not
\* the current master.  Refuted: increaseSupply and decreaseSupply also
\* accept the ledger's own address (lines 69 and 77), which is how
\* reclaimBalanceFrom mints.
C6_Original ==
    \A l \in Ledgers, sender \in Addr :
        sender # ledgers[l].neuronMaster => MasterOnlyCallsFail(ledgers, l, sender)

\* C6 (amended): increaseSupply, decreaseSupply, changeMastery, changeName,
\* changeSymbol and whitelisting, called by an address that is neither the
\* current master nor the ledger's own address, revert and leave master,
\* name, symbol, totalSupply, balances, allowances and whitelist unchanged;
\* changeMastery, changeName, changeSymbol and whitelisting revert for the
\* ledger's own address as well.
C6_NonMasterCallsFail ==
    \A l \in Ledgers, sender \in Addr :
        sender # ledgers[l].neuronMaster =>
            IF sender # l THEN MasterOnlyCallsFail(ledgers, l, sender)
            ELSE /\ \A m \in Addr : ~changeMastery(ledgers, l, sender, m).ok
                 /\ \A n \in Names : ~changeName(ledgers, l, sender, n).ok
                 /\ \A y \in Symbols : ~changeSymbol(ledgers, l, sender, y).ok
                 /\ \A old \in Addr :
                        ~whitelistContractForReclamation(ledgers, l, sender, old).ok

\* A, who is not the master, has just been refused by increaseSupply
C6_Witness ==
    /\ receipt.op = "increaseSupply" /\ ~receipt.ok /\ receipt.line = 69
    /\ receipt.sender = "A"
    /\ ledgers["N"].neuronMaster = "D"
    /\ ledgers["N"].totalSupply = 2

\* right after a successful changeMastery(M, M2) the master is M2 and every
\* master-only call of M fails
C7_HandOff ==
    \A l \in Ledgers : \A M \in Addr \ {l} : \A M2 \in Addr \ {M} :
        LET r == changeMastery(ledgers, l, M, M2)
        IN  r.ok => /\ r.L[l].neuronMaster = M2
                    /\ r.L = [ledgers EXCEPT ![l].neuronMaster = M2]
                    /\ MasterOnlyCallsFail(r.L, l, M)

\* a step that changes the master is a successful changeMastery sent by the
\* master
C7_OnlyMasterChangesMaster ==
    \A l \in Ledgers :
        ledgers'[l].neuronMaster # ledgers[l].neuronMaster =>
            /\ receipt'.op = "changeMastery" /\ receipt'.ok /\ receipt'.at = l
            /\ receipt'.sender = ledgers[l].neuronMaster

\* C7: a successful changeMastery(M, M2), M2 # M, makes M2 the master at
\* once; from then on the master-only calls of M fail (for as long as M is
\* not made master again), and the master field changes only in a successful
\* changeMastery sent by the current master.
C7_MasteryHandOff ==
    []C7_HandOff /\ [][C7_OnlyMasterChangesMaster]_vars

\* D handed mastery to A, and D's increaseSupply has just been refused
C7_Witness ==
    /\ receipt.op = "increaseSupply" /\ ~receipt.ok /\ receipt.line = 69
    /\ receipt.sender = "D"
    /\ ledgers["N"].neuronMaster = "A"

\* C8 as stated: a participant whose status is Rejected stays Rejected in
\* every later step.  Refuted: respondToEnrollment with accept = true sets
\* the status to Accepted whatever it was (line 85).
C8_RejectedIsTerminal ==
    [][\A a \in Addr : participants[a] = Rejected => participants'[a] = Rejected]_vars

\* C9: a successful reclaimBalanceFrom(caller, O, account, amount) on N, with
\* O # N and account # N, lowers O.balanceOf(account) and O.allowance(account,
\* N) by amount, raises O.balanceOf(N), N.totalSupply and N.balanceOf(account)
\* by amount (nothing wrapping), and changes nothing else: not O.totalSupply,
\* not N.balanceOf(N).
C9_ReclaimEffect ==
    \A sender \in Callers, v \in Uint :
      \A N \in Ledgers : \A O \in Ledgers \ {N} : \A account \in Addr \ {N} :
        LET r == reclaimBalanceFrom(ledgers, N, sender, O, account, v)
        IN  r.ok =>
                /\ r.L = [ledgers EXCEPT ![O].ledger[account] = @ - v,
                                         ![O].ledger[N] = @ + v,
                                         ![O].allowances[account][N] = @ - v,
                                         ![N].totalSupply = @ + v,
                                         ![N].ledger[account] = @ + v]
                /\ r.L[O].ledger[account] \in Uint
                /\ r.L[O].ledger[N] \in Uint
                /\ r.L[O].allowances[account][N] \in Uint
                /\ r.L[N].totalSupply \in Uint
                /\ r.L[N].ledger[account] \in Uint
                /\ r.L[O].totalSupply = ledgers[O].totalSupply
                /\ r.L[N].ledger[N] = ledgers[N].ledger[N]
                /\ r.logs = <<TransferEv(O, account, N, v), TransferEv(N, N, account, v)>>

\* A approved N for 2 on O and one token of A has just been reclaimed
C9_Witness ==
    /\ receipt.op = "reclaimBalanceFrom" /\ receipt.ok
    /\ ledgers["O"].ledger["A"] = 1
    /\ ledgers["O"].ledger["N"] = 1
    /\ ledgers["O"].allowances["A"]["N"] = 1
    /\ ledgers["N"].ledger["A"] = 1
    /\ ledgers["N"].ledger["N"] = 0

\* a reclaimBalanceFrom in which the pull on the old token, the mint or the
\* final transfer fails, fails as a whole, changes no storage of either
\* ledger and emits no event
C10_FailureChangesNothing ==
    \A sender \in Callers, l \in Ledgers, old \in Ledgers \cup {"D"},
       account \in Users \cup Ledgers, v \in Uint :
        LET r == reclaimBalanceFrom(ledgers, l, sender, old, account, v)
            r1 == IF old \in Ledgers THEN transferFrom(ledgers, old, l, account, l, v)
                  ELSE Revert(ledgers, 150)
            r2 == increaseSupply(r1.L, l, l, v)
            r3 == transfer(r2.L, l, l, account, v)
        IN  /\ (~r1.ok \/ ~r2.ok \/ ~r3.ok) => ~r.ok
            /\ ~r.ok => (r.L = ledgers /\ r.logs = <<>>)

\* a step of a failed reclaimBalanceFrom leaves all storage as it was
C10_FailedStepChangesNothing ==
    (receipt'.op = "reclaimBalanceFrom" /\ ~receipt'.ok) =>
        UNCHANGED <<ledgers, participants>>

\* C10: reclaimBalanceFrom is all-or-nothing across both ledgers: if the pull
\* on O, the mint on N or the final transfer on N fails, no balance, allowance
\* or totalSupply of either ledger changes and no event is emitted.
C10_ReclaimAllOrNothing ==
    []C10_FailureChangesNothing /\ [][C10_FailedStepChangesNothing]_vars

\* the mint has just failed on overflow although A's approval and balance on
\* O allowed the pull: nothing was pulled
C10_Witness ==
    /\ receipt.op = "reclaimBalanceFrom" /\ ~receipt.ok /\ receipt.line = 154
    /\ ledgers["N"].totalSupply = MaxUint
    /\ ledgers["N"].reclamationWhitelist["O"]
    /\ ledgers["O"].allowances["A"]["N"] = 2
    /\ ledgers["O"].ledger["A"] = 2
    /\ ledgers["O"].ledger["N"] = 0

\* C11: reclaimBalanceFrom(caller, O, account, amount) on N fails whenever O
\* is not in N's reclamation whitelist, whatever the balances and allowances
\* on O, and the failed call changes nothing on either ledger and emits no
\* event.
C11_NotWhitelistedFails ==
    \A sender \in Callers, l \in Ledgers, old \in Ledgers \cup {"D"},
       account \in Users \cup Ledgers, v \in Uint :
        ~ledgers[l].reclamationWhitelist[old] =>
            LET r == reclaimBalanceFrom(ledgers, l, sender, old, account, v)
            IN  ~r.ok /\ r.line = 149 /\ r.L = ledgers /\ r.logs = <<>>

\* A approved N for its whole balance on O, O is not whitelisted, and a
\* reclaim has just been refused at the whitelist requirement
C11_Witness ==
    /\ receipt.op = "reclaimBalanceFrom" /\ ~receipt.ok /\ receipt.line = 149
    /\ ~ledgers["N"].reclamationWhitelist["O"]
    /\ ledgers["O"].allowances["A"]["N"] = 2
    /\ ledgers["O"].ledger["A"] = 2
    /\ ledgers["N"].totalSupply = 1

\* a new ledger has an empty whitelist; whitelisting by the master adds the
\* identifier and nothing else; whitelisting by anyone else fails
C12_WhitelistCall ==
    /\ \A sender \in Addr, n \in Names, y \in Symbols, v \in Uint, x \in Addr :
           ~Constructor(sender, n, y, v).reclamationWhitelist[x]
    /\ \A l \in Ledgers, sender \in Addr, x \in Addr :
           LET r == whitelistContractForReclamation(ledgers, l, sender, x)
           IN  IF sender = ledgers[l].neuronMaster
               THEN /\ r.ok
                    /\ r.L = [ledgers EXCEPT ![l].reclamationWhitelist[x] = TRUE]
               ELSE ~r.ok /\ r.L = ledgers

\* an entry of a whitelist changes only from absent to present, alone, and
\* in a successful whitelisting sent by the master of that ledger
C12_WhitelistStep ==
    \A l \in Ledgers :
        ledgers'[l].reclamationWhitelist # ledgers[l].reclamationWhitelist =>
            /\ receipt'.op = "whitelistContractForReclamation"
            /\ receipt'.ok /\ receipt'.at = l
            /\ receipt'.sender = ledgers[l].neuronMaster
            /\ \E x \in Addr :
                   /\ ~ledgers[l].reclamationWhitelist[x]
                   /\ ledgers'[l].reclamationWhitelist =
                          [ledgers[l].reclamationWhitelist EXCEPT ![x] = TRUE]

\* C12: the reclamation whitelist of a ledger is empty on creation, gains an
\* identifier exactly when the account holding mastery at that time
\* whitelists it, gains nothing from a whitelisting call by a non-master, and
\* never loses an entry, whatever operation is performed.
C12_WhitelistIsMasterMade ==
    []C12_WhitelistCall /\ [][C12_WhitelistStep]_vars

\* A, made master by D, has whitelisted O, and D's whitelisting of N has just
\* been refused
C12_Witness ==
    /\ receipt.op = "whitelistContractForReclamation" /\ ~receipt.ok
    /\ receipt.line = 140 /\ receipt.sender = "D"
    /\ ledgers["N"].neuronMaster = "A"
    /\ ledgers["N"].reclamationWhitelist["O"]
    /\ ~ledgers["N"].reclamationWhitelist["N"]

\* C13: respondToEnrollment and respond, called by anyone other than the
\* principal investigator, with accept true or false, fail, leave every
\* participant status and the ledger unchanged and emit no StimulusResponse.
C13_OnlyPIResponds ==
    \A sender \in Addr \ {principalInvestigator}, candidate \in Users,
       id \in StimulusIds, accept \in BOOLEAN :
        /\ LET r == respondToEnrollment(ledgers, participants, sender, candidate, id, accept)
           IN  ~r.ok /\ r.L = ledgers /\ r.P = participants /\ r.logs = <<>>
        /\ \A t \in StimulusTypes :
               LET r == respond(ledgers, participants, sender, candidate, t, id, accept)
               IN  ~r.ok /\ r.L = ledgers /\ r.P = participants /\ r.logs = <<>>

\* A, who is not the PI, has just been refused by respondToEnrollment while
\* the PI's balance and its approval of the Stimulus would pay a reward
C13_Witness ==
    /\ receipt.op = "respondToEnrollment" /\ ~receipt.ok /\ receipt.line = 82
    /\ receipt.sender = "A" /\ principalInvestigator = "D"
    /\ participants["A"] = Pending
    /\ ledgers[nrn].ledger["D"] >= rewards[0]
    /\ ledgers[nrn].allowances["D"][StimulusAddr] >= rewards[0]

\* C14: a successful respondToEnrollment(PI, C, id, true), C # PI, sets
\* status(C) to Accepted, raises the balance of C by rewards[0], lowers the
\* balance of the PI and the allowance of the PI to the Stimulus by
\* rewards[0], changes nothing else (totalSupply included), and emits the
\* Transfer of the reward and StimulusResponse(C, 0, id, true).
C14_AcceptEffect ==
    \A candidate \in Addr \ {principalInvestigator}, id \in StimulusIds :
        LET r == respondToEnrollment(ledgers, participants, principalInvestigator,
                                     candidate, id, TRUE)
            PI == principalInvestigator
        IN  r.ok =>
                /\ r.P = [participants EXCEPT ![candidate] = Accepted]
                /\ r.L = [ledgers EXCEPT ![nrn].ledger[PI] = @ - rewards[0],
                                         ![nrn].ledger[candidate] = @ + rewards[0],
                                         ![nrn].allowances[PI][StimulusAddr] = @ - rewards[0]]
                /\ r.L[nrn].ledger[PI] \in Uint
                /\ r.L[nrn].ledger[candidate] \in Uint
                /\ r.L[nrn].allowances[PI][StimulusAddr] \in Uint
                /\ r.L[nrn].totalSupply = ledgers[nrn].totalSupply
                /\ r.logs = <<TransferEv(nrn, PI, candidate, rewards[0]),
                              StimulusResponseEv(candidate, 0, id, TRUE)>>

\* the PI approved the Stimulus for 2 and has just accepted A, paying 1
C14_Witness ==
    /\ receipt.op = "respondToEnrollment" /\ receipt.ok
    /\ participants = [a \in Addr |-> IF a = "A" THEN Accepted ELSE Unset]
    /\ ledgers[nrn].ledger["A"] = 1
    /\ ledgers[nrn].ledger["D"] = 0
    /\ ledgers[nrn].totalSupply = 1
    /\ ledgers[nrn].allowances["D"][StimulusAddr] = 1

\* C15: if the reward transfer inside respondToEnrollment(PI, C, id, true) or
\* respond(PI, C, t, id, true) fails, as it does when the PI's balance or the
\* allowance of the PI to the Stimulus is below the reward, the whole call
\* fails: no status, balance or allowance changes and no event is emitted.
C15_FailedRewardFailsResponse ==
    \A candidate \in Addr, id \in StimulusIds :
        LET PI == principalInvestigator
            Pays(reward) == transferFrom(ledgers, nrn, StimulusAddr, PI, candidate, reward).ok
            Short(reward) == \/ ledgers[nrn].ledger[PI] < reward
                             \/ ledgers[nrn].allowances[PI][StimulusAddr] < reward
        IN  /\ Short(rewards[0]) => ~Pays(rewards[0])
            /\ ~Pays(rewards[0]) =>
                   LET r == respondToEnrollment(ledgers, participants, PI, candidate, id, TRUE)
                   IN  ~r.ok /\ r.L = ledgers /\ r.P = participants /\ r.logs = <<>>
            /\ \A t \in 1..(NumRewards - 1) :
                   /\ Short(rewards[t]) => ~Pays(rewards[t])
                   /\ ~Pays(rewards[t]) =>
                          LET r == respond(ledgers, participants, PI, candidate, t, id, TRUE)
                          IN  ~r.ok /\ r.L = ledgers /\ r.P = participants /\ r.logs = <<>>

\* the PI holds tokens but has not approved the Stimulus, and its acceptance
\* of the enrolled A has just failed at the reward transfer
C15_Witness ==
    /\ receipt.op = "respondToEnrollment" /\ ~receipt.ok /\ receipt.line = 84
    /\ receipt.sender = principalInvestigator
    /\ participants["A"] = Pending
    /\ ledgers[nrn].ledger["D"] = 2
    /\ ledgers[nrn].allowances["D"][StimulusAddr] = 0

C17_RejectedCannotEnroll ==
    \A sender \in Addr, id \in StimulusIds :
        status(participants, sender) = Rejected =>
            LET r == enroll(ledgers, participants, sender, id)
            IN  /\ ~r.ok /\ r.line = 67
                /\ r.P = participants /\ r.L = ledgers /\ r.logs = <<>>
                /\ status(r.P, sender) = Rejected

\* the rejected A has just tried to enroll again and was refused
C17_Witness ==
    /\ receipt.op = "enroll" /\ ~receipt.ok /\ receipt.line = 67
    /\ receipt.sender = "A"
    /\ participants["A"] = Rejected

\* enroll from Unset, Pending or Accepted succeeds, makes the caller Pending,
\* touches nothing else and emits StimulusRequest(caller, 0, id); every
\* submit of the caller then fails
C18_EnrollCall ==
    \A sender \in Addr, id \in StimulusIds :
        status(participants, sender) \in {Unset, Pending, Accepted} =>
            LET r == enroll(ledgers, participants, sender, id)
            IN  /\ r.ok
                /\ r.P = [participants EXCEPT ![sender] = Pending]
                /\ r.L = ledgers
                /\ r.logs = <<StimulusRequestEv(sender, 0, id)>>
                /\ \A t \in StimulusTypes, id2 \in StimulusIds :
                       ~submit(r.L, r.P, sender, t, id2).ok

\* a participant becomes Accepted only in a successful respondToEnrollment
\* sent by the principal investigator
C18_AcceptedOnlyByPI ==
    \A a \in Addr :
        (participants[a] # Accepted /\ participants'[a] = Accepted) =>
            /\ receipt'.op = "respondToEnrollment" /\ receipt'.ok
            /\ receipt'.sender = principalInvestigator

\* C18: enroll(caller, id) with status Unset, Pending or Accepted succeeds,
\* sets status(caller) to Pending and emits StimulusRequest(caller, 0, id);
\* an Accepted participant who re-enrolls is Pending again, and its submit
\* calls fail until the PI accepts it again.
C18_EnrollResetsToPending ==
    []C18_EnrollCall /\ [][C18_AcceptedOnlyByPI]_vars

\* A, who holds the enrollment reward, is Pending and its submit has just
\* been refused for its status
C18_Witness ==
    /\ receipt.op = "submit" /\ ~receipt.ok /\ receipt.line = 74
    /\ receipt.sender = "A"
    /\ participants["A"] = Pending
    /\ ledgers[nrn].ledger["A"] = rewards[0]

\* C19: respondToEnrollment(PI, C, id, false) always succeeds, whatever the
\* status of C and the PI's balance and allowance: it sets status(C) to
\* Rejected, moves no token and emits StimulusResponse(C, 0, id, false).
C19_RejectIsUnconditional ==
    \A candidate \in Addr, id \in StimulusIds :
        LET r == respondToEnrollment(ledgers, participants, principalInvestigator,
                                     candidate, id, FALSE)
        IN  /\ r.ok
            /\ r.P = [participants EXCEPT ![candidate] = Rejected]
            /\ r.L = ledgers
            /\ r.logs = <<StimulusResponseEv(candidate, 0, id, FALSE)>>

\* the PI, who never approved the Stimulus, has rejected A
C19_Witness ==
    /\ receipt.op = "respondToEnrollment" /\ receipt.ok
    /\ participants = [a \in Addr |-> IF a = "A" THEN Rejected ELSE Unset]
    /\ ledgers[nrn].allowances["D"][StimulusAddr] = 0
    /\ ledgers[nrn].totalSupply = 1
    /\ ledgers[nrn].ledger["D"] = 1

\* C20 as stated: a participant's status leaves Unset only in a successful
\* enroll sent by that participant.  Refuted: respondToEnrollment sets the
\* status of any address the PI names, enrolled or not (lines 85 and 87).
C20_StatusOnlyAfterOwnEnroll ==
    [][\A a \in Addr :
          (participants[a] = Unset /\ participants'[a] # Unset) =>
              (receipt'.op = "enroll" /\ receipt'.ok /\ receipt'.sender = a)]_vars

\* C21: respond(PI, C, t, id, accept) fails for t = 0 and for t >= 5; for
\* 1 <= t <= 4 and accept = true a successful call moves exactly rewards[t]
\* from the PI's balance to C, lowers the PI's allowance to the Stimulus by
\* rewards[t] and emits StimulusResponse(C, t, id, true); for 1 <= t <= 4 and
\* accept = false it succeeds, moves nothing and emits StimulusResponse(C, t,
\* id, false).  It never changes a status.
C21_RespondEffect ==
    \A candidate \in Addr \ {principalInvestigator}, t \in StimulusTypes,
       id \in StimulusIds :
        LET PI == principalInvestigator
            yes == respond(ledgers, participants, PI, candidate, t, id, TRUE)
            no == respond(ledgers, participants, PI, candidate, t, id, FALSE)
        IN  IF t = 0 \/ t >= 5
            THEN /\ ~yes.ok /\ yes.L = ledgers /\ yes.P = participants /\ yes.logs = <<>>
                 /\ ~no.ok /\ no.L = ledgers /\ no.P = participants /\ no.logs = <<>>
            ELSE /\ yes.ok =>
                     /\ yes.L = [ledgers EXCEPT
                                    ![nrn].ledger[PI] = @ - rewards[t],
                                    ![nrn].ledger[candidate] = @ + rewards[t],
                                    ![nrn].allowances[PI][StimulusAddr] = @ - rewards[t]]
                     /\ yes.L[nrn].ledger[PI] \in Uint
                     /\ yes.L[nrn].ledger[candidate] \in Uint
                     /\ yes.L[nrn].allowances[PI][StimulusAddr] \in Uint
                     /\ yes.P = participants
                     /\ yes.logs = <<TransferEv(nrn, PI, candidate, rewards[t]),
                                     StimulusResponseEv(candidate, t, id, TRUE)>>
                 /\ no.ok /\ no.L = ledgers /\ no.P = participants
                 /\ no.logs = <<StimulusResponseEv(candidate, t, id, FALSE)>>

\* the PI minted, approved the Stimulus for 2 and has just paid A the reward
\* of 2, the reward of stimulus type 4
C21_Witness ==
    /\ receipt.op = "respond" /\ receipt.ok
    /\ participants = [a \in Addr |-> Unset]
    /\ ledgers[nrn].ledger["A"] = rewards[4]
    /\ ledgers[nrn].ledger["D"] = 0
    /\ ledgers[nrn].totalSupply = 2
    /\ ledgers[nrn].allowances["D"][StimulusAddr] = 0

\* neither submit nor respond writes a status, whatever the outcome
C22_NoStatusWrite ==
    \A sender \in Addr, t \in StimulusTypes, id \in StimulusIds :
        /\ submit(ledgers, participants, sender, t, id).P = participants
        /\ \A candidate \in Users, accept \in BOOLEAN :
               respond(ledgers, participants, sender, candidate, t, id, accept).P
                   = participants

\* a step that changes a status is a successful enroll of the participant
\* itself, which becomes Pending, or a successful respondToEnrollment of the
\* PI; a submit or respond step changes no status
C22_StatusStep ==
    /\ \A a \in Addr :
           participants'[a] # participants[a] =>
               \/ /\ receipt'.op = "enroll" /\ receipt'.ok /\ receipt'.sender = a
                  /\ participants'[a] = Pending
               \/ /\ receipt'.op = "respondToEnrollment" /\ receipt'.ok
                  /\ receipt'.sender = principalInvestigator
                  /\ participants'[a] \in {Accepted, Rejected}
    /\ receipt'.op \in {"submit", "respond"} => participants' = participants

\* C22: submit and respond never change a participant's status, whether they
\* succeed or fail; a status changes only in a successful enroll, of the
\* caller's own entry, or in a successful respondToEnrollment by the PI.
C22_StatusChangesOnlyByEnrollment ==
    []C22_NoStatusWrite /\ [][C22_StatusStep]_vars

\* the PI has just paid the Pending A the reward of type 4, and A is Pending
\* still
C22_Witness ==
    /\ receipt.op = "respond" /\ receipt.ok
    /\ participants["A"] = Pending
    /\ ledgers[nrn].ledger["A"] = 2
    /\ ledgers[nrn].ledger["D"] = 0

\* C23: transfer(caller, to, amount) has the outcome, the resulting state and
\* the events of transferFrom(caller, caller, to, amount): it succeeds exactly
\* when amount <= balances[caller], needs no allowance and leaves every
\* allowance, allowances[caller][caller] included, unchanged.
C23_TransferIsTransferFromSelf ==
    \A l \in Ledgers, sender \in Addr, to \in Users, v \in Uint :
        LET t == transfer(ledgers, l, sender, to, v)
            f == transferFrom(ledgers, l, sender, sender, to, v)
        IN  /\ t = f
            /\ t.ok <=> v <= ledgers[l].ledger[sender]
            /\ t.L[l].allowances = ledgers[l].allowances

\* D, who granted itself no allowance and granted A one of 2, has just sent
\* its token to B; A's allowance is what it was
C23_Witness ==
    /\ receipt.op = "transfer" /\ receipt.ok /\ receipt.sender = "D"
    /\ ledgers["N"].ledger["B"] = 1
    /\ ledgers["N"].ledger["D"] = 0
    /\ ledgers["N"].allowances["D"]["D"] = 0
    /\ ledgers["N"].allowances["D"]["A"] = 2

\* C24 as stated: for the master, increaseSupply(amount) succeeds exactly
\* when totalSupply + amount does not overflow and decreaseSupply(amount)
\* exactly when amount <= balances[master], amount = 0 included.  Refuted:
\* lines 71 and 81 compare the new supply strictly with the old one, so
\* amount = 0 is refused by both.
C24_SupplyAmountConditions ==
    \A l \in Ledgers, v \in Uint :
        LET m == ledgers[l].neuronMaster
        IN  /\ increaseSupply(ledgers, l, m, v).ok <=>
                   ledgers[l].totalSupply + v <= MaxUint
            /\ decreaseSupply(ledgers, l, m, v).ok <=> v <= ledgers[l].ledger[m]

\* C25: increaseSupply(amount) by the master with amount > 0 and no overflow
\* raises totalSupply and the master's balance by amount and changes no other
\* balance and no allowance.
C25_IncreaseSupplyEffect ==
    \A l \in Ledgers, v \in Uint \ {0} :
        LET m == ledgers[l].neuronMaster
            r == increaseSupply(ledgers, l, m, v)
        IN  ledgers[l].totalSupply + v <= MaxUint =>
                /\ r.ok
                /\ r.L = [ledgers EXCEPT ![l].totalSupply = @ + v,
                                         ![l].ledger[m] = @ + v]
                /\ r.L[l].ledger[m] \in Uint
                /\ r.logs = <<>>

\* A, made master by D, has just minted one token for itself next to D's
C25_Witness ==
    /\ receipt.op = "increaseSupply" /\ receipt.ok /\ receipt.sender = "A"
    /\ ledgers["N"].neuronMaster = "A"
    /\ ledgers["N"].ledger["A"] = 1
    /\ ledgers["N"].ledger["D"] = 1
    /\ ledgers["N"].totalSupply = 2

\* C26: decreaseSupply(amount) by the master with 0 < amount <=
\* balances[master] lowers the master's balance and totalSupply by amount;
\* with amount > balances[master], also when amount <= totalSupply, it fails
\* and changes nothing.
C26_DecreaseSupplyEffect ==
    \A l \in Ledgers, v \in Uint \ {0} :
        LET m == ledgers[l].neuronMaster
            r == decreaseSupply(ledgers, l, m, v)
        IN  IF v <= ledgers[l].ledger[m]
            THEN /\ r.ok
                 /\ r.L = [ledgers EXCEPT ![l].totalSupply = @ - v,
                                          ![l].ledger[m] = @ - v]
                 /\ r.L[l].totalSupply \in Uint
            ELSE ~r.ok /\ r.line = 78 /\ r.L = ledgers

\* the master D holds 1 of the 2 tokens there are, and its decreaseSupply of
\* more than it holds has just been refused
C26_Witness ==
    /\ receipt.op = "decreaseSupply" /\ ~receipt.ok /\ receipt.line = 78
    /\ receipt.sender = "D"
    /\ ledgers["N"].neuronMaster = "D"
    /\ ledgers["N"].ledger["D"] = 1
    /\ ledgers["N"].ledger["A"] = 1
    /\ ledgers["N"].totalSupply = 2

\* the outcome r of a call sent by sender to ledger l leaves every allowance
\* of l, every balance of l but the sender's, and every other ledger as in L
TouchesOnlyOwnBalance(L, l, sender, r) ==
    /\ r.L[l].allowances = L[l].allowances
    /\ \A a \in Addr \ {sender} : r.L[l].ledger[a] = L[l].ledger[a]
    /\ \A k \in Ledgers \ {l} : r.L[k] = L[k]

\* no master-only method, whoever sends it and whatever its outcome, changes
\* another account's balance or an allowance; a transferFrom of the master
\* needs the allowance any spender needs and has the outcome it would have
\* if the sender were not the master
C27_MasterCalls ==
    \A l \in Ledgers :
        /\ \A sender \in Addr :
               /\ \A v \in Uint :
                      /\ TouchesOnlyOwnBalance(ledgers, l, sender,
                                               increaseSupply(ledgers, l, sender, v))
                      /\ TouchesOnlyOwnBalance(ledgers, l, sender,
                                               decreaseSupply(ledgers, l, sender, v))
               /\ \A x \in Addr :
                      /\ LET r == changeMastery(ledgers, l, sender, x)
                         IN  r.L[l].ledger = ledgers[l].ledger
                             /\ TouchesOnlyOwnBalance(ledgers, l, sender, r)
                      /\ LET r == whitelistContractForReclamation(ledgers, l, sender, x)
                         IN  r.L[l].ledger = ledgers[l].ledger
                             /\ TouchesOnlyOwnBalance(ledgers, l, sender, r)
               /\ \A n \in Names :
                      LET r == changeName(ledgers, l, sender, n)
                      IN  r.L[l].ledger = ledgers[l].ledger
                          /\ TouchesOnlyOwnBalance(ledgers, l, sender, r)
               /\ \A y \in Symbols :
                      LET r == changeSymbol(ledgers, l, sender, y)
                      IN  r.L[l].ledger = ledgers[l].ledger
                          /\ TouchesOnlyOwnBalance(ledgers, l, sender, r)
        /\ LET m == ledgers[l].neuronMaster
               other == [ledgers EXCEPT ![l].neuronMaster = StimulusAddr]
           IN  \A from \in Users \ {m}, to \in Users, v \in Uint :
                   LET r == transferFrom(ledgers, l, m, from, to, v)
                       q == transferFrom(other, l, m, from, to, v)
                   IN  /\ r.ok => ledgers[l].allowances[from][m] >= v
                       /\ r.ok <=> q.ok
                       /\ r.L[l].ledger = q.L[l].ledger
                       /\ r.L[l].allowances = q.L[l].allowances

\* a step of a master-only method changes no allowance and no balance but
\* the sender's
C27_MasterStep ==
    receipt'.op \in {"increaseSupply", "decreaseSupply", "changeMastery", "changeName",
                     "changeSymbol", "whitelistContractForReclamation"} =>
        \A l \in Ledgers :
            /\ ledgers'[l].allowances = ledgers[l].allowances
            /\ \A a \in Addr \ {receipt'.sender} :
                   ledgers'[l].ledger[a] = ledgers[l].ledger[a]

\* C27: increaseSupply, decreaseSupply, changeMastery, changeName,
\* changeSymbol and whitelisting change no balance but the caller's and no
\* allowance; the master moves another account's tokens only by transferFrom
\* under an allowance, as any spender does.
C27_MasterHasNoRightsOverOthers ==
    []C27_MasterCalls /\ [][C27_MasterStep]_vars

\* the master D has just burned its token while A holds one and has granted
\* D an allowance of 1: both are as they were
C27_Witness ==
    /\ receipt.op = "decreaseSupply" /\ receipt.ok /\ receipt.sender = "D"
    /\ ledgers["N"].neuronMaster = "D"
    /\ ledgers["N"].ledger["A"] = 1
    /\ ledgers["N"].allowances["A"]["D"] = 1
    /\ ledgers["N"].ledger["D"] = 0
    /\ ledgers["N"].totalSupply = 1

\* C28: right after the creation of a ledger with initial supply S by creator
\* D, totalSupply = S, balanceOf(D) = S, every other balance and every
\* allowance is 0, D is the master and the reclamation whitelist is empty.
C28_FreshLedger ==
    /\ \A D \in Addr, n \in Names, y \in Symbols, S \in Uint :
           LET c == Constructor(D, n, y, S)
           IN  /\ c.totalSupply = S
               /\ balanceOf(c, D) = S
               /\ \A a \in Addr \ {D} : balanceOf(c, a) = 0
               /\ \A a \in Addr, b \in Addr : allowance(c, a, b) = 0
               /\ c.neuronMaster = D
               /\ \A a \in Addr \ {D} : ~hasMastery(c, a)
               /\ \A x \in Addr : ~c.reclamationWhitelist[x]
               /\ c.name = n /\ c.symbol = y
    /\ (receipt.op = "constructor" /\ receipt.at \in Ledgers) =>
           LET c == ledgers[receipt.at]
               D == receipt.sender
           IN  /\ balanceOf(c, D) = c.totalSupply
               /\ \A a \in Addr \ {D} : balanceOf(c, a) = 0
               /\ \A a \in Addr, b \in Addr : allowance(c, a, b) = 0
               /\ c.neuronMaster = D
               /\ \A x \in Addr : ~c.reclamationWhitelist[x]

\* B has just created N with an initial supply of 2
C28_Witness ==
    /\ receipt.op = "constructor" /\ receipt.at = "N" /\ receipt.sender = "B"
    /\ ledgers["N"].totalSupply = 2
    /\ ledgers["N"].name = "Stem"

\* the configuration the constructor of the Stimulus wrote
C29_Config ==
    /\ principalInvestigator = "D"
    /\ nrn = "N"
    /\ rewards = Rewards

Count(logs, kind) == Len(SelectSeq(logs, LAMBDA e : e.kind = kind))

\* what the call with outcome r may emit: nothing if it failed, and if it
\* succeeded exactly requests StimulusRequest and responses StimulusResponse
EmitsExactly(r, requests, responses) ==
    IF r.ok
    THEN /\ Count(r.logs, "StimulusRequest") = requests
         /\ Count(r.logs, "StimulusResponse") = responses
    ELSE r.logs = <<>>

\* every method of the Stimulus, whatever its input, emits nothing when it
\* fails; enroll and submit emit one StimulusRequest on success,
\* respondToEnrollment and respond one StimulusResponse
C30_Emits ==
    \A sender \in Addr, id \in StimulusIds :
        /\ EmitsExactly(enroll(ledgers, participants, sender, id), 1, 0)
        /\ \A t \in StimulusTypes :
               EmitsExactly(submit(ledgers, participants, sender, t, id), 1, 0)
        /\ \A candidate \in Users, accept \in BOOLEAN :
               /\ EmitsExactly(respondToEnrollment(ledgers, participants, sender,
                                                   candidate, id, accept), 0, 1)
               /\ \A t \in StimulusTypes :
                      EmitsExactly(respond(ledgers, participants, sender, candidate,
                                           t, id, accept), 0, 1)

\* a step keeps the log as a prefix; a failed transaction adds nothing to
\* it, a successful enroll or submit one StimulusRequest, a successful
\* respondToEnrollment or respond one StimulusResponse
C30_LogStep ==
    LET added == SubSeq(log', Len(log) + 1, Len(log'))
    IN  /\ Len(log') >= Len(log)
        /\ SubSeq(log', 1, Len(log)) = log
        /\ ~receipt'.ok => log' = log
        /\ (receipt'.ok /\ receipt'.op \in {"enroll", "submit"}) =>
               /\ Len(added) = 1
               /\ added[1].kind = "StimulusRequest"
               /\ added[1].candidate = receipt'.sender
        /\ (receipt'.ok /\ receipt'.op \in {"respondToEnrollment", "respond"}) =>
               /\ Len(added) = 1
               /\ added[1].kind = "StimulusResponse"

RECURSIVE Moved(_, _)
Moved(logs, owner) ==
    IF logs = <<>> THEN 0
    ELSE (IF Head(logs).kind = "Transfer" /\ Head(logs).from = owner
          THEN Head(logs).amount ELSE 0) + Moved(Tail(logs), owner)

\* the records of the log after position i and before the next Approval
UntilNextApproval(i) ==
    LET later == {j \in (i + 1)..Len(log) : log[j].kind = "Approval"}
        stop == IF later = {} THEN Len(log) + 1
                ELSE CHOOSE j \in later : \A k \in later : j <= k
    IN  SubSeq(log, i + 1, stop - 1)

\* what A moved out of D's balance after an approve of D and before D's next
\* approve is at most what that approve set
C31_SpentWithinApproval ==
    \A i \in 1..Len(log) :
        log[i].kind = "Approval" =>
            /\ log[i].owner = "D" /\ log[i].spender = "A"
            /\ Moved(UntilNextApproval(i), "D") <= log[i].amount

\* each transferFrom of A consumes what it moves: the allowance is lowered
\* by the amount without wrapping, and it rises only in an approve of D
C31_AllowanceStep ==
    LET before == ledgers["N"].allowances["D"]["A"]
        after == ledgers'["N"].allowances["D"]["A"]
        added == SubSeq(log', Len(log) + 1, Len(log'))
    IN  /\ (receipt'.op = "transferFrom" /\ receipt'.ok) =>
               /\ Moved(added, "D") <= before
               /\ after = before - Moved(added, "D")
        /\ after > before =>
               (receipt'.op = "approve" /\ receipt'.ok /\ receipt'.sender = "D")

C32_ReclaimedSupplyIsBacked ==
    ledgers["N"].totalSupply <= balanceOf(ledgers["O"], "N")

\* the caller has no part in reclaimBalanceFrom but to trigger it
C33_CallerIsIrrelevant(old, account, v) ==
    LET r == reclaimBalanceFrom(ledgers, "N", "D", old, account, v)
        O == ledgers[old]
        enough == /\ ledgers["N"].reclamationWhitelist[old]
                  /\ v > 0
                  /\ ledgers["N"].totalSupply + v <= MaxUint
                  /\ O.ledger[account] >= v
                  /\ (account = "N" \/ O.allowances[account]["N"] >= v)
    IN  /\ \A sender \in Addr :
               LET q == reclaimBalanceFrom(ledgers, "N", sender, old, account, v)
               IN  /\ q = r
                   /\ (q.ok /\ sender # account) =>
                          balanceOf(q.L["N"], sender) = balanceOf(ledgers["N"], sender)
        /\ enough => r.ok
        /\ r.ok => /\ balanceOf(r.L["N"], account) = balanceOf(ledgers["N"], account) + v
                   /\ \A a \in Addr \ {account} :
                          balanceOf(r.L["N"], a) = balanceOf(ledgers["N"], a)

\* C33: the outcome and the effects of reclaimBalanceFrom do not depend on
\* the caller: two calls from the same state that differ only in the caller
\* end in the same state, any caller succeeds for an account that approved N
\* on O, and the reclaimed tokens are credited to account, never to the
\* caller unless the two are the same address.
C33_ReclaimIgnoresCaller ==
    \A old \in Ledgers : \A account \in Users \cup {"N"} : \A v \in Amounts :
        C33_CallerIsIrrelevant(old, account, v)

\* D, who holds nothing on O, has just reclaimed for A: A is credited on N
\* and D is not
C33_Witness ==
    /\ receipt.op = "reclaimBalanceFrom" /\ receipt.ok /\ receipt.sender = "D"
    /\ balanceOf(ledgers["N"], "A") > 0
    /\ balanceOf(ledgers["N"], "D") = 0
    /\ balanceOf(ledgers["O"], "N") > 0
    /\ balanceOf(ledgers["O"], "D") = 0

\* no call on either ledger lowers the balance N holds on O, and N grants
\* no allowance on O
C34_LockedStep ==
    /\ balanceOf(ledgers'["O"], "N") >= balanceOf(ledgers["O"], "N")
    /\ \A a \in Addr : allowance(ledgers'["O"], "N", a) = 0

\* no method of O called with N's balance as the source succeeds for a
\* positive amount, whoever calls it
C34_NoWayOut ==
    \A sender \in Users : \A to \in Addr : \A v \in Amounts \ {0} :
        /\ ~transferFrom(ledgers, "O", sender, "N", to, v).ok
        /\ balanceOf(transfer(ledgers, "O", sender, to, v).L["O"], "N")
               >= balanceOf(ledgers["O"], "N")

\* C34: the tokens pulled into N's address on O by reclamation are locked:
\* O.balanceOf(N) never decreases under any sequence of operations on O and
\* N, because N never issues a transfer or an approve on O on its own behalf.
C34_ReclaimedTokensAreLocked ==
    []C34_NoWayOut /\ [][C34_LockedStep]_vars

\* N holds tokens on O after a reclamation, and a transferFrom on O with N as
\* the source has just been refused for lack of allowance
C34_Witness ==
    /\ receipt.op = "transferFrom" /\ receipt.at = "O" /\ ~receipt.ok
    /\ receipt.line = 110
    /\ balanceOf(ledgers["O"], "N") > 0
    /\ ledgers["N"].totalSupply > 0

RECURSIVE Rewarded(_, _)
Rewarded(logs, Candidates) ==
    IF logs = <<>> THEN 0
    ELSE (IF /\ Head(logs).kind = "StimulusResponse"
             /\ Head(logs).accepted
             /\ Head(logs).candidate \in Candidates
          THEN rewards[Head(logs).stimulusType] ELSE 0)
         + Rewarded(Tail(logs), Candidates)

\* what the accounts other than the PI hold is what the accepting responses
\* in the log awarded them: nothing else moves a token to or from them here
C36_PaidIsRewarded ==
    SumOver(ledgers[nrn].ledger, Addr \ {principalInvestigator})
        = Rewarded(log, Addr \ {principalInvestigator})

\* what one response moves, measured on the allowance it consumes and on the
\* balances of the PI and of the candidate
C36_ResponseMoves(r, candidate, award) ==
    LET PI == principalInvestigator
        before == ledgers[nrn]
        after == r.L[nrn]
    IN  r.ok =>
            /\ Rewarded(Filter(r.logs, {StimulusAddr}), Addr) = award
            /\ allowance(before, PI, StimulusAddr) >= award
            /\ allowance(after, PI, StimulusAddr)
                   = allowance(before, PI, StimulusAddr) - award
            /\ candidate # PI =>
                   /\ balanceOf(after, PI) = balanceOf(before, PI) - award
                   /\ balanceOf(after, candidate)
                          = balanceOf(before, candidate) + award
            /\ r.logs # <<>> /\ r.logs[Len(r.logs)].kind = "StimulusResponse"
            /\ Len(r.logs) > 1 =>
                   r.logs[1] = TransferEv(nrn, PI, candidate, award)

\* every response moves its reward when it accepts and nothing when it
\* rejects, whatever the status of the candidate
C36_EachResponse ==
    \A candidate \in Users : \A accept \in BOOLEAN :
        /\ C36_ResponseMoves(
               respondToEnrollment(ledgers, participants, principalInvestigator,
                                   candidate, 5, accept),
               candidate, IF accept THEN rewards[0] ELSE 0)
        /\ \A t \in 1..4 :
               C36_ResponseMoves(
                   respond(ledgers, participants, principalInvestigator,
                           candidate, t, 5, accept),
                   candidate, IF accept THEN rewards[t] ELSE 0)

\* C36: the cumulative amount the Stimulus has moved out of the PI's balance
\* equals the sum of rewards[stimulusType] over the StimulusResponse records
\* with accepted = true (type 0 for enrollment); a rejecting response moves
\* nothing, and no status check limits how often one candidate is paid.
C36_PayoutsMatchResponses ==
    C36_PaidIsRewarded /\ C36_EachResponse

\* A, already accepted and paid for it, has just been accepted and paid a
\* second time
C36_Witness ==
    /\ receipt.op = "respondToEnrollment" /\ receipt.ok
    /\ log = <<StimulusResponseEv("A", 0, 5, TRUE), StimulusResponseEv("A", 0, 5, TRUE)>>
    /\ balanceOf(ledgers[nrn], "A") = 2
    /\ status(participants, "A") = Accepted

\* what a call of the Stimulus that ends in r may change on the ledgers: the
\* balance of the PI may fall and other balances rise on nrn, and the
\* allowance of the PI to the Stimulus may change; nothing else
C37_Frame(r) ==
    LET PI == principalInvestigator
        before == ledgers[nrn]
        after == r.L[nrn]
    IN  /\ \A l \in Ledgers \ {nrn} : r.L[l] = ledgers[l]
        /\ \A a \in Addr \ {PI} : balanceOf(after, a) >= balanceOf(before, a)
        /\ after.totalSupply = before.totalSupply
        /\ [after.allowances EXCEPT ![PI][StimulusAddr] = allowance(before, PI, StimulusAddr)]
               = before.allowances
        /\ [after EXCEPT !.ledger = before.ledger, !.allowances = before.allowances]
               = before
        /\ ~r.ok => r.L = ledgers

\* the calls of the Stimulus that do not accept touch no ledger
C37_NoLedgerWrite(sender) ==
    /\ enroll(ledgers, participants, sender, 5).L = ledgers
    /\ \A t \in StimulusTypes :
           submit(ledgers, participants, sender, t, 5).L = ledgers
    /\ \A candidate \in Users :
           /\ respondToEnrollment(ledgers, participants, sender, candidate, 5, FALSE).L
                  = ledgers
           /\ \A t \in StimulusTypes :
                  respond(ledgers, participants, sender, candidate, t, 5, FALSE).L
                      = ledgers

\* C37: no operation of the Stimulus lowers the ledger balance of an account
\* other than the PI, changes totalSupply, or changes an allowance other
\* than the one the PI granted to the Stimulus; enroll, submit, status and
\* rejecting responses change no ledger state at all.
C37_StimulusLedgerFrame ==
    \A sender \in {principalInvestigator, "A"} :
        /\ C37_NoLedgerWrite(sender)
        /\ \A candidate \in Users :
               /\ C37_Frame(respondToEnrollment(ledgers, participants, sender,
                                                candidate, 5, TRUE))
               /\ \A t \in StimulusTypes :
                      C37_Frame(respond(ledgers, participants, sender,
                                        candidate, t, 5, TRUE))

\* the PI has just rejected a submission of A after having paid A: the
\* rejection left the balances and the rest of the allowance as they were
C37_Witness ==
    /\ receipt.op = "respond" /\ receipt.ok
    /\ log = <<StimulusResponseEv("A", 1, 5, TRUE), StimulusResponseEv("A", 1, 5, FALSE)>>
    /\ balanceOf(ledgers[nrn], "A") = 1
    /\ balanceOf(ledgers[nrn], principalInvestigator) = 1
    /\ allowance(ledgers[nrn], principalInvestigator, StimulusAddr) = 1

\* respond of the PI for candidate ends the same way whatever status the
\* candidate has, leaves that status alone, and for a type in 1..4 succeeds
\* when it rejects or the PI has the balance and the allowance for the reward
C38_SameForEveryStatus(candidate, t, accept) ==
    LET PI == principalInvestigator
        r == respond(ledgers, participants, PI, candidate, t, 5, accept)
        funded == /\ balanceOf(ledgers[nrn], PI) >= rewards[t]
                  /\ allowance(ledgers[nrn], PI, StimulusAddr) >= rewards[t]
    IN  /\ \A s \in {Unset, Pending, Rejected, Accepted} :
               LET P == [participants EXCEPT ![candidate] = s]
                   q == respond(ledgers, P, PI, candidate, t, 5, accept)
               IN  /\ q.ok = r.ok /\ q.line = r.line
                   /\ q.L = r.L /\ q.logs = r.logs
                   /\ q.P = P
        /\ (t \in 1..4 /\ (accept => funded)) => r.ok

\* C38: the outcome of respond by the PI does not depend on the participant
\* status of the candidate nor on whether the candidate ever called submit:
\* for a type in 1..4 it succeeds for an Unset, Pending, Rejected or Accepted
\* candidate alike, given a sufficient PI balance and allowance when it
\* accepts.
C38_RespondIgnoresStatus ==
    \A candidate \in {"A", principalInvestigator} : \A t \in StimulusTypes :
        \A accept \in BOOLEAN : C38_SameForEveryStatus(candidate, t, accept)

\* A, whose enrollment was rejected and who never submitted, has just been
\* paid for a submission of type 1
C38_Witness ==
    /\ receipt.op = "respond" /\ receipt.ok
    /\ log = <<StimulusResponseEv("A", 0, 5, FALSE), StimulusResponseEv("A", 1, 5, TRUE)>>
    /\ status(participants, "A") = Rejected
    /\ balanceOf(ledgers[nrn], "A") = 1

\* a transferFrom of amount 0 succeeds, writes nothing and records the
\* Transfer
C39_ZeroTransfer(sender, from, to) ==
    LET r == transferFrom(ledgers, nrn, sender, from, to, 0)
    IN  /\ r.ok
        /\ r.L = ledgers
        /\ r.logs = <<TransferEv(nrn, from, to, 0)>>

\* an accepting response of the PI whose reward is 0 succeeds and writes
\* nothing on the ledger
C39_ZeroReward(candidate, t) ==
    LET r == respond(ledgers, participants, principalInvestigator, candidate, t, 5, TRUE)
    IN  rewards[t] = 0 =>
            /\ r.ok
            /\ r.L = ledgers
            /\ r.logs = <<TransferEv(nrn, principalInvestigator, candidate, 0),
                          StimulusResponseEv(candidate, t, 5, TRUE)>>

\* C39: transferFrom(from, to, 0) succeeds for every caller, from and to,
\* even with no allowance and a zero balance, changes no balance and no
\* allowance and records Transfer(from, to, 0); so an accepting response
\* whose reward is 0 succeeds even when the PI has neither balance nor
\* allowance.
C39_ZeroAmountAlwaysSucceeds ==
    /\ \A sender \in Users \cup {StimulusAddr} : \A from \in Users : \A to \in Users :
           C39_ZeroTransfer(sender, from, to)
    /\ \A candidate \in Users : \A t \in 1..4 : C39_ZeroReward(candidate, t)

\* the PI, left with no token and no allowance after paying A's enrollment,
\* has just accepted a submission of A of the type whose reward is 0
C39_Witness ==
    /\ receipt.op = "respond" /\ receipt.ok
    /\ log = <<StimulusResponseEv("A", 0, 5, TRUE), StimulusResponseEv("A", 2, 5, TRUE)>>
    /\ rewards[2] = 0
    /\ balanceOf(ledgers[nrn], principalInvestigator) = 0
    /\ allowance(ledgers[nrn], principalInvestigator, StimulusAddr) = 0

\* the arithmetic of a successful transferFrom, increaseSupply and
\* decreaseSupply on N stays within 0..MaxUint: the debits of the balance
\* and of the allowance, the credit of the destination (of a destination
\* that is the source too when selfToo is set), the credit of the minter and
\* both updates of totalSupply
C40_InRange(sender, from, to, v, selfToo) ==
    LET c == ledgers["N"]
        t == transferFrom(ledgers, "N", sender, from, to, v)
        inc == increaseSupply(ledgers, "N", sender, v)
        dec == decreaseSupply(ledgers, "N", sender, v)
    IN  /\ t.ok =>
               /\ c.ledger[from] - v >= 0
               /\ sender # from => c.allowances[from][sender] - v >= 0
               /\ (selfToo \/ to # from) => c.ledger[to] + v <= MaxUint
        /\ inc.ok =>
               /\ c.totalSupply + v <= MaxUint
               /\ c.ledger[sender] + v <= MaxUint
        /\ dec.ok =>
               /\ c.totalSupply - v >= 0
               /\ c.ledger[sender] - v >= 0

\* the balances a successful transferFrom leaves are those of unbounded
\* arithmetic
C40_ExactResult(sender, from, to, v) ==
    LET c == ledgers["N"]
        t == transferFrom(ledgers, "N", sender, from, to, v)
    IN  t.ok =>
            \A a \in Addr :
                balanceOf(t.L["N"], a)
                    = c.ledger[a] + (IF a = to THEN v ELSE 0) - (IF a = from THEN v ELSE 0)

\* the balances of N add up, without reduction, to totalSupply
C40_BalancesWithinSupply ==
    SumOver(ledgers["N"].ledger, Addr) = ledgers["N"].totalSupply

\* C40 as stated: no unsigned quantity ever wraps around: the credit to
\* balances[to] in a transfer, the credit to the caller's balance in
\* increaseSupply, the debit of balances[from], the debit of an allowance and
\* the update of totalSupply all stay within the unsigned range.
C40_Original ==
    \A sender \in Users : \A from \in Users : \A to \in Users : \A v \in Amounts :
        C40_InRange(sender, from, to, v, TRUE)

\* C40: no stored quantity is ever a wrapped value: the balances add up to
\* totalSupply; the debits of balances[from] and of the allowance, the
\* credits and debits of increaseSupply and decreaseSupply and the credit to
\* balances[to] of a transfer between two different addresses stay within
\* the unsigned range; in a transfer of an address to itself the credit of
\* line 111 may wrap and the debit of line 112 then wraps back, leaving the
\* balance as it was.
C40_NoStoredWrap ==
    /\ C40_BalancesWithinSupply
    /\ \A sender \in Users : \A from \in Users : \A to \in Users : \A v \in Amounts :
           /\ C40_InRange(sender, from, to, v, FALSE)
           /\ C40_ExactResult(sender, from, to, v)

\* D holds the largest balance there is and A, approved for it, has just
\* moved all of it from D to D: the balance is as it was
C40_Witness ==
    /\ receipt.op = "transferFrom" /\ receipt.ok
    /\ log = <<ApprovalEv("N", "D", "A", MaxUint), TransferEv("N", "D", "D", MaxUint)>>
    /\ balanceOf(ledgers["N"], "D") = MaxUint
    /\ ledgers["N"].totalSupply = MaxUint

====
